---- MODULE Spec2Model ----
(***************************************************************************)
(* InvestPal: the session store, the user-context store and the chat turn  *)
(* orchestrator (src/services/session.py, src/services/user_context.py,    *)
(* src/services/chat.py) as a state machine over the two MongoDB           *)
(* collections.  Every request is an asyncio task; a task runs atomically  *)
(* between two awaits, so every action below is one await-to-await piece   *)
(* of a service method together with the database operation it awaits.     *)
(*                                                                         *)
(* The collections are durable and outlive the process: a behaviour starts *)
(* either on empty collections or on collections that already hold one     *)
(* user context and one session of that user, with the documents shaped as *)
(* the services write them.                                                *)
(***************************************************************************)
EXTENDS Integers, Sequences, FiniteSets, TLC

\* ---------------------------------------------------------------- bounds
\* Calls started in one behaviour (also the supply of call ids).
MaxCalls == 2

\* ---------------------------------------------------------------- inputs
\* Request slots: a request runs as a task in a slot, two at a time.
Tasks == {1, 2}
Users == {"u1", "u2"}
\* Session ids a caller supplies.
SessionIds == {"s1", "s2"}
Contents == {"hello"}
TextReplies == {"reply"}
\* A dict is the set of its <<key, value>> items.
Profiles == {{<<"age", 29>>}}
AAPL == [asset_class |-> "stock", symbol |-> "AAPL", name |-> "Apple", quantity |-> 10]
Portfolios == {<<AAPL>>}
\* Component sequences the agent may return under the UI schema (type tags).
UIReplies == {<<>>, <<"text", "alert">>}

\* Optional[T]: None is {}, a value v is {v}.
None == {}
Some(v) == {v}
The(o) == CHOOSE v \in o : TRUE

\* The (user_profile, user_portfolio) arguments of create and update: both
\* omitted, the profile alone, both given.
ContextInputs ==
    {<<None, None>>} \cup {<<Some(p), None>> : p \in Profiles}
        \cup {<<Some(p), Some(f)>> : p \in Profiles, f \in Portfolios}

\* ---------------------------------------------------------------- state
VARIABLES
    user_contexts,  \* the user-context collection: documents in insertion order
    sessions,       \* the session collection: documents in insertion order
    tasks,          \* per request task: position, arguments, locals, outcome
    clock,          \* dt.datetime.now()
    calls,          \* calls started so far
    settings,       \* config.settings, as far as the agent service reads it
    origin,         \* history: per session id, the call that pushed each stored message
    callLog         \* history: per session id, the add_message calls made by
                    \* sequential callers, in call order, less those that raised

vars == <<user_contexts, sessions, tasks, clock, calls, settings, origin, callLog>>

\* ---------------------------------------------------------------- models
USER == "user"
AGENT == "agent"

Message(role, content, created_at) ==
    [role |-> role, content |-> content, created_at |-> created_at]

Session(session_id, user_id, messages) ==
    [session_id |-> session_id, user_id |-> user_id, messages |-> messages]

SessionMongoDoc(sessionID, user_id, messages) ==
    [sessionID |-> sessionID, user_id |-> user_id, messages |-> messages]

UserContext(user_id, user_profile, user_portfolio, created_at, updated_at) ==
    [user_id |-> user_id, user_profile |-> user_profile,
     user_portfolio |-> user_portfolio,
     created_at |-> created_at, updated_at |-> updated_at]

UserContextMongoDoc(user_id, user_profile, user_portfolio, created_at, updated_at) ==
    [user_id |-> user_id, user_profile |-> user_profile,
     user_portfolio |-> user_portfolio,
     created_at |-> created_at, updated_at |-> updated_at]

\* ---------------------------------------------------------------- the store
\* collection.find_one({field: value}): the first document that has the field
\* with that value, None when there is none.
FindOne(collection, field, value) ==
    LET hits == {i \in 1..Len(collection) :
                    /\ field \in DOMAIN collection[i]
                    /\ collection[i][field] = value}
    IN IF hits = {} THEN None
       ELSE Some(collection[CHOOSE i \in hits : \A j \in hits : i <= j])

\* collection.insert_one(doc)
InsertOne(collection, doc) == Append(collection, doc)

\* Faulty variant: update_many with a filter every session matches.
PushMessage_UpdateMany(collection, session_id, m) ==
    [i \in 1..Len(collection) |->
        [collection[i] EXCEPT !.messages = Append(@, m)]]

\* Faulty variant: $set in place of $push, the messages become the one message.
PushMessage_Set(collection, session_id, m) ==
    LET hits == {i \in 1..Len(collection) : collection[i].sessionID = session_id}
    IN IF hits = {} THEN collection
       ELSE LET k == CHOOSE i \in hits : \A j \in hits : i <= j
            IN [collection EXCEPT ![k].messages = <<m>>]

\* collection.update_one({"sessionID": id}, {"$push": {"messages": m}}): the
\* first matching document gets m appended to its messages.
PushMessage(collection, session_id, m) ==
    LET hits == {i \in 1..Len(collection) : collection[i].sessionID = session_id}
    IN IF hits = {} THEN collection
       ELSE LET k == CHOOSE i \in hits : \A j \in hits : i <= j
            IN [collection EXCEPT ![k].messages = Append(@, m)]

\* dt.datetime.now(): every read is later than the read before it.
Tick == clock + 1

\* ---------------------------------------------------------------- tasks
IdleTask ==
    [pc |-> "idle", op |-> "none", id |-> 0,
     user_id |-> "", session_id |-> "", message |-> "",
     user_profile |-> None, user_portfolio |-> None,
     doc |-> None, session |-> None, adding |-> None, conversation |-> <<>>,
     window |-> None, trace |-> <<>>, runtime_context |-> None, tools |-> <<>>,
     response |-> None, error |-> "", returned |-> None]

\* A slot is outside a call: it never ran one, or its last call has ended.
Quiet(t) == tasks[t].pc \in {"idle", "done"}

\* A new request takes the quiet slot whose last call is the oldest (slots
\* are interchangeable, so this loses no behaviour).
Free(t) ==
    /\ Quiet(t)
    /\ calls < MaxCalls
    /\ \A o \in Tasks \ {t} :
        Quiet(o) => (tasks[t].id < tasks[o].id \/ (tasks[t].id = tasks[o].id /\ t < o))

Call(op) == [IdleTask EXCEPT !.op = op, !.id = calls + 1]

\* A call ends: its exception or its value stays, its other locals are gone.
Raise(task, error) ==
    [task EXCEPT !.pc = "done", !.error = error,
                 !.session = None, !.adding = None, !.response = None]

Return(task, value) ==
    [task EXCEPT !.pc = "done", !.returned = Some(value),
                 !.session = None, !.adding = None, !.response = None]

\* uuid.uuid4(): a value no other call draws and no caller supplies.
Uuid4(id) == "uuid-" \o ToString(id)

\* Python truthiness of an Optional[str] and of an Optional[list].
TruthyStr(o) == o # None /\ The(o) # ""
TruthyList(o) == o # None /\ Len(The(o)) > 0

OrElse(o, default) == IF o # None THEN The(o) ELSE default

\* What the durable collections may already hold when the process starts.
SeedContext == UserContextMongoDoc("u1", {<<"age", 28>>}, <<>>, Some(0), None)
SeedMessages == <<Message(USER, "hello", Some(0)), Message(AGENT, "reply", Some(0))>>
SeedSession == SessionMongoDoc("s1", "u1", SeedMessages)
SeedOrigin == <<[id |-> 0, op |-> "seed"], [id |-> 0, op |-> "seed"]>>

AllSessionIds == SessionIds \cup {""} \cup {Uuid4(i) : i \in 1..MaxCalls}

\* The configuration of a deployment whose provider is one the agent service
\* knows.
DefaultSettings == [LLM_PROVIDER |-> "openai", CONVERSATION_MESSAGES_LIMIT |-> 2]

Init ==
    /\ settings = DefaultSettings
    /\ \/ /\ user_contexts = <<>>
          /\ sessions = <<>>
          /\ origin = <<>>
       \/ /\ user_contexts = <<SeedContext>>
          /\ sessions = <<SeedSession>>
          /\ origin = <<SeedOrigin>>
    /\ tasks = [t \in Tasks |-> IdleTask]
    /\ clock = 1
    /\ calls = 0
    /\ callLog = [s \in AllSessionIds |-> <<>>]

\* ------------------------------------------------ MongoDBUserContextService
\* Faulty variant: create_user_context without the existence check.
create_user_context_unchecked(t, user_id, user_profile, user_portfolio) ==
    /\ Free(t)
    /\ calls' = calls + 1
    /\ clock' = Tick
    /\ tasks' = [tasks EXCEPT ![t] = [Call("create_user_context") EXCEPT
                    !.pc = "cuc_insert",
                    !.user_id = user_id,
                    !.user_profile = user_profile,
                    !.user_portfolio = user_portfolio,
                    !.doc = Some(UserContextMongoDoc(
                                user_id, OrElse(user_profile, {}),
                                OrElse(user_portfolio, <<>>), Some(clock), None))]]
    /\ UNCHANGED <<settings, user_contexts, sessions, origin, callLog>>

\* create_user_context up to the await of insert_one: the existence check,
\* then the document with its created_at stamp.
create_user_context_check(t, user_id, user_profile, user_portfolio) ==
    /\ Free(t)
    /\ calls' = calls + 1
    /\ LET task == [Call("create_user_context") EXCEPT
                        !.user_id = user_id,
                        !.user_profile = user_profile,
                        !.user_portfolio = user_portfolio]
           existing_user_context == FindOne(user_contexts, "user_id", user_id)
       IN IF existing_user_context # None
          THEN /\ tasks' = [tasks EXCEPT ![t] = Raise(task, "UserContextAlreadyExistsError")]
               /\ clock' = clock
          ELSE /\ clock' = Tick
               /\ tasks' = [tasks EXCEPT ![t] = [task EXCEPT
                        !.pc = "cuc_insert",
                        !.doc = Some(UserContextMongoDoc(
                                    user_id,
                                    OrElse(user_profile, {}),
                                    IF TruthyList(user_portfolio) THEN The(user_portfolio) ELSE <<>>,
                                    Some(clock), None))]]
    /\ UNCHANGED <<settings, user_contexts, sessions, origin, callLog>>

\* insert_one, then the returned UserContext with a second now().
create_user_context_insert(t) ==
    /\ tasks[t].pc = "cuc_insert"
    /\ user_contexts' = InsertOne(user_contexts, The(tasks[t].doc))
    /\ clock' = Tick
    /\ tasks' = [tasks EXCEPT ![t] = Return(@, UserContext(
                    @.user_id,
                    OrElse(@.user_profile, {}),
                    OrElse(@.user_portfolio, <<>>),
                    Some(clock), None))]
    /\ UNCHANGED <<settings, sessions, origin, calls, callLog>>

\* The document -> UserContext mapping of get_user_context / update_user_context.
ToUserContext(mongo_doc) ==
    UserContext(mongo_doc.user_id, mongo_doc.user_profile, mongo_doc.user_portfolio,
                mongo_doc.created_at, mongo_doc.updated_at)

\* Faulty variant: get_user_context raises for a user without a record.
get_user_context_or_raise(t, user_id) ==
    /\ Free(t)
    /\ calls' = calls + 1
    /\ LET task == [Call("get_user_context") EXCEPT !.user_id = user_id]
           user_context_doc == FindOne(user_contexts, "user_id", user_id)
       IN tasks' = [tasks EXCEPT ![t] =
                        IF user_context_doc = None
                        THEN Raise(task, "UserContextNotFoundError")
                        ELSE Return(task, ToUserContext(The(user_context_doc)))]
    /\ UNCHANGED <<settings, user_contexts, sessions, origin, clock, callLog>>

get_user_context(t, user_id) ==
    /\ Free(t)
    /\ calls' = calls + 1
    /\ LET task == [Call("get_user_context") EXCEPT !.user_id = user_id]
           user_context_doc == FindOne(user_contexts, "user_id", user_id)
       IN tasks' = [tasks EXCEPT ![t] =
                        IF user_context_doc = None
                        THEN [task EXCEPT !.pc = "done"]
                        ELSE Return(task, ToUserContext(The(user_context_doc)))]
    /\ UNCHANGED <<settings, user_contexts, sessions, origin, clock, callLog>>

\* update_user_context up to the await: now, the replacement document.
update_user_context_begin(t, user_id, user_profile, user_portfolio) ==
    /\ Free(t)
    /\ calls' = calls + 1
    /\ clock' = Tick
    /\ tasks' = [tasks EXCEPT ![t] = [Call("update_user_context") EXCEPT
                    !.pc = "uuc_update",
                    !.user_id = user_id,
                    !.user_profile = user_profile,
                    !.user_portfolio = user_portfolio,
                    !.doc = Some(UserContextMongoDoc(
                                user_id,
                                OrElse(user_profile, {}),
                                IF TruthyList(user_portfolio) THEN The(user_portfolio) ELSE <<>>,
                                None, Some(clock)))]]
    /\ UNCHANGED <<settings, user_contexts, sessions, origin, callLog>>

\* Faulty variant: upsert=True, a missing record is created from the update.
FindOneAndUpdate_Upsert(collection, user_id, mongo_doc) ==
    LET hits == {i \in 1..Len(collection) : collection[i].user_id = user_id}
    IN IF hits = {} THEN Append(collection, mongo_doc)
       ELSE LET k == CHOOSE i \in hits : \A j \in hits : i <= j
            IN [collection EXCEPT ![k].user_profile = mongo_doc.user_profile,
                                  ![k].user_portfolio = mongo_doc.user_portfolio,
                                  ![k].updated_at = mongo_doc.updated_at]

\* Faulty variant: the new profile is merged into the stored one and an empty
\* portfolio leaves the stored one in place.
FindOneAndUpdate_Merge(collection, user_id, mongo_doc) ==
    LET hits == {i \in 1..Len(collection) : collection[i].user_id = user_id}
    IN IF hits = {} THEN collection
       ELSE LET k == CHOOSE i \in hits : \A j \in hits : i <= j
            IN [collection EXCEPT
                    ![k].user_profile = @ \cup mongo_doc.user_profile,
                    ![k].user_portfolio =
                        IF mongo_doc.user_portfolio = <<>> THEN @
                        ELSE mongo_doc.user_portfolio,
                    ![k].updated_at = mongo_doc.updated_at]

\* Faulty variant: created_at is not excluded from update_data.
FindOneAndUpdate_SetsCreatedAt(collection, user_id, mongo_doc) ==
    LET hits == {i \in 1..Len(collection) : collection[i].user_id = user_id}
    IN IF hits = {} THEN collection
       ELSE LET k == CHOOSE i \in hits : \A j \in hits : i <= j
            IN [collection EXCEPT ![k].user_profile = mongo_doc.user_profile,
                                  ![k].user_portfolio = mongo_doc.user_portfolio,
                                  ![k].created_at = mongo_doc.created_at,
                                  ![k].updated_at = mongo_doc.updated_at]

\* find_one_and_update({"user_id": user_id}, {"$set": update_data}) with
\* update_data = the document without user_id and created_at.
FindOneAndUpdate(collection, user_id, mongo_doc) ==
    LET hits == {i \in 1..Len(collection) : collection[i].user_id = user_id}
    IN IF hits = {} THEN collection
       ELSE LET k == CHOOSE i \in hits : \A j \in hits : i <= j
            IN [collection EXCEPT ![k].user_profile = mongo_doc.user_profile,
                                  ![k].user_portfolio = mongo_doc.user_portfolio,
                                  ![k].updated_at = mongo_doc.updated_at]

update_user_context_write(t) ==
    /\ tasks[t].pc = "uuc_update"
    /\ user_contexts' = FindOneAndUpdate(user_contexts, tasks[t].user_id, The(tasks[t].doc))
    /\ LET updated_doc == FindOne(user_contexts', "user_id", tasks[t].user_id)
       IN tasks' = [tasks EXCEPT ![t] =
                        IF updated_doc = None
                        THEN Raise(@, "UserContextNotFoundError")
                        ELSE Return(@, ToUserContext(The(updated_doc)))]
    /\ UNCHANGED <<settings, sessions, origin, clock, calls, callLog>>

\* ---------------------------------------------------- MongoDBSessionService
\* Faulty variant: the mapping drops created_at.
ToSession_NoCreatedAt(mongo_doc) ==
    Session(mongo_doc.sessionID, mongo_doc.user_id,
            [i \in 1..Len(mongo_doc.messages) |->
                Message(mongo_doc.messages[i].role,
                        mongo_doc.messages[i].content,
                        None)])

\* The document -> Session mapping of get_session.
ToSession(mongo_doc) ==
    Session(mongo_doc.sessionID, mongo_doc.user_id,
            [i \in 1..Len(mongo_doc.messages) |->
                Message(mongo_doc.messages[i].role,
                        mongo_doc.messages[i].content,
                        mongo_doc.messages[i].created_at)])

\* get_session as the other methods call it: the Session, or None.
GetSession(session_id) ==
    LET doc == FindOne(sessions, "sessionID", session_id)
    IN IF doc = None THEN None ELSE Some(ToSession(The(doc)))

get_session(t, session_id) ==
    /\ Free(t)
    /\ calls' = calls + 1
    /\ LET task == [Call("get_session") EXCEPT !.session_id = session_id]
           session == GetSession(session_id)
       IN tasks' = [tasks EXCEPT ![t] =
                        IF session = None
                        THEN [task EXCEPT !.pc = "done"]
                        ELSE Return(task, The(session))]
    /\ UNCHANGED <<settings, user_contexts, sessions, origin, clock, callLog>>

\* Faulty variant: create_session looks the user up before the session id.
create_session_begin_user_first(t, user_id, session_id) ==
    /\ Free(t)
    /\ calls' = calls + 1
    /\ LET task == [Call("create_session") EXCEPT !.user_id = user_id]
       IN tasks' = [tasks EXCEPT ![t] =
            IF FindOne(user_contexts, "user_id", user_id) = None
            THEN Raise([task EXCEPT !.session_id =
                            IF TruthyStr(session_id) THEN The(session_id) ELSE ""],
                       "UserContextNotFoundError")
            ELSE IF TruthyStr(session_id)
            THEN IF GetSession(The(session_id)) # None
                 THEN Raise([task EXCEPT !.session_id = The(session_id)],
                            "SessionAlreadyExistsError")
                 ELSE [task EXCEPT !.pc = "cs_user", !.session_id = The(session_id)]
            ELSE [task EXCEPT !.pc = "cs_user", !.session_id = Uuid4(calls + 1)]]
    /\ UNCHANGED <<settings, user_contexts, sessions, origin, clock, callLog>>

\* Faulty variant: create_session without the session-id check.
create_session_begin_unchecked(t, user_id, session_id) ==
    /\ Free(t)
    /\ calls' = calls + 1
    /\ LET task == [Call("create_session") EXCEPT !.user_id = user_id]
       IN tasks' = [tasks EXCEPT ![t] =
            IF TruthyStr(session_id)
            THEN [task EXCEPT !.pc = "cs_user", !.session_id = The(session_id)]
            ELSE [task EXCEPT !.pc = "cs_user", !.session_id = Uuid4(calls + 1)]]
    /\ UNCHANGED <<settings, user_contexts, sessions, origin, clock, callLog>>

\* create_session up to the await of the user-context lookup: the session-id
\* check when an id is given, a uuid4 otherwise.
create_session_begin(t, user_id, session_id) ==
    /\ Free(t)
    /\ calls' = calls + 1
    /\ LET task == [Call("create_session") EXCEPT !.user_id = user_id]
       IN tasks' = [tasks EXCEPT ![t] =
            IF TruthyStr(session_id)
            THEN IF GetSession(The(session_id)) # None
                 THEN Raise([task EXCEPT !.session_id = The(session_id)],
                            "SessionAlreadyExistsError")
                 ELSE [task EXCEPT !.pc = "cs_user", !.session_id = The(session_id)]
            ELSE [task EXCEPT !.pc = "cs_user", !.session_id = Uuid4(calls + 1)]]
    /\ UNCHANGED <<settings, user_contexts, sessions, origin, clock, callLog>>

\* The filter of the user-context lookup in create_session.
UserIdFilterKey == "userid"

\* Faulty variant: create_session without the user-context check.
create_session_insert_unchecked(t) ==
    /\ tasks[t].pc = "cs_user"
    /\ LET session_doc == SessionMongoDoc(tasks[t].session_id, tasks[t].user_id, <<>>)
       IN /\ sessions' = InsertOne(sessions, session_doc)
          /\ origin' = Append(origin, <<>>)
          /\ tasks' = [tasks EXCEPT ![t] =
                Return(@, Session(session_doc.sessionID, session_doc.user_id, <<>>))]
    /\ UNCHANGED <<settings, user_contexts, clock, calls, callLog>>

\* The rest of create_session: the user-context lookup, insert_one, the Session.
\* No operation removes a user context, so the two awaits are one step here.
create_session_insert(t) ==
    /\ tasks[t].pc = "cs_user"
    /\ LET user_context == FindOne(user_contexts, UserIdFilterKey, tasks[t].user_id)
           session_doc == SessionMongoDoc(tasks[t].session_id, tasks[t].user_id, <<>>)
       IN IF user_context = None
          THEN /\ tasks' = [tasks EXCEPT ![t] = Raise(@, "UserContextNotFoundError")]
               /\ UNCHANGED <<sessions, origin>>
          ELSE /\ sessions' = InsertOne(sessions, session_doc)
               /\ origin' = Append(origin, <<>>)
               /\ tasks' = [tasks EXCEPT ![t] =
                    Return(@, Session(session_doc.sessionID, session_doc.user_id, <<>>))]
    /\ UNCHANGED <<settings, user_contexts, clock, calls, callLog>>

\* The history of a push: which call pushed the message at each position.
PushOrigin(session_id, by) ==
    LET hits == {i \in 1..Len(sessions) : sessions[i].sessionID = session_id}
    IN IF hits = {} THEN origin
       ELSE LET k == CHOOSE i \in hits : \A j \in hits : i <= j
            IN [origin EXCEPT ![k] = Append(@, by)]

\* add_message up to the await of update_one: get_session, the not-found check.
AddMessageGet(task, message) ==
    LET session == GetSession(task.session_id)
    IN IF session = None
       THEN Raise(task, "SessionNotFoundError")
       ELSE [task EXCEPT !.pc = "am_push",
                         !.session = session,
                         !.adding = Some(message)]

\* The history of a call by a sequential caller (no other slot is in a call).
LogCall(t, task, message) ==
    IF GetSession(task.session_id) = None \/ \E o \in Tasks \ {t} : ~Quiet(o)
    THEN callLog
    ELSE [callLog EXCEPT ![task.session_id] =
            Append(@, [id |-> task.id, message |-> message])]

\* The history without a call that raised.
UnlogCall(task, message) ==
    [callLog EXCEPT ![task.session_id] =
        SelectSeq(@, LAMBDA e : e # [id |-> task.id, message |-> message])]

add_message_begin(t, session_id, message) ==
    /\ Free(t)
    /\ calls' = calls + 1
    /\ LET task == [Call("add_message") EXCEPT !.session_id = session_id]
       IN /\ tasks' = [tasks EXCEPT ![t] = AddMessageGet(task, message)]
          /\ callLog' = LogCall(t, task, message)
    /\ UNCHANGED <<settings, user_contexts, sessions, origin, clock>>

\* ------------------------------------------------------- AgenticChatService
TextOp == "generate_text_response"
UIOp == "generate_gen_ui_response"
ChatOps == {TextOp, UIOp}

TextResponseFormat(response) == [response |-> response]
GenerativeUIResponseFormat(components) == [components |-> components]

\* What the agent may answer under each response format.
Responses(op) ==
    IF op = TextOp
    THEN {TextResponseFormat(r) : r \in TextReplies}
    ELSE {GenerativeUIResponseFormat([i \in 1..Len(tags) |-> [type |-> tags[i]]]) :
            tags \in UIReplies}

\* json.dumps([c.model_dump() for c in response.components])
RECURSIVE JsonItems(_)
JsonItems(components) ==
    IF Len(components) = 0 THEN ""
    ELSE "{\"type\": \"" \o Head(components).type \o "\"}"
         \o (IF Len(components) = 1 THEN "" ELSE ", ")
         \o JsonItems(Tail(components))

JsonDumps(components) == "[" \o JsonItems(components) \o "]"

\* Faulty variant: a structured answer is stored as its first component alone.
AgentContent_FirstComponent(op, response) ==
    IF op = TextOp THEN response.response
    ELSE JsonDumps(IF Len(response.components) = 0 THEN <<>>
                   ELSE <<response.components[1]>>)

\* The text a turn stores and returns for the agent's answer.
AgentContent(op, response) ==
    IF op = TextOp THEN response.response ELSE JsonDumps(response.components)

\* Faulty variant: a turn on a missing session goes on with an empty conversation.
chat_begin_unchecked(t, op, session_id, message) ==
    /\ Free(t)
    /\ calls' = calls + 1
    /\ LET task == [Call(op) EXCEPT !.session_id = session_id, !.message = message]
           session == GetSession(session_id)
       IN tasks' = [tasks EXCEPT ![t] =
            [task EXCEPT
                !.pc = "generate",
                !.user_id = IF session = None THEN "" ELSE The(session).user_id,
                !.conversation =
                    Append(IF session = None THEN <<>> ELSE The(session).messages,
                           Message(USER, message, None))]]
    /\ UNCHANGED <<settings, user_contexts, sessions, origin, clock, callLog>>

\* Faulty variant: the turn calls the model at once, before the tool set is
\* resolved and the provider matched.
chat_begin_model_first(t, op, session_id, message) ==
    /\ Free(t)
    /\ calls' = calls + 1
    /\ LET task == [Call(op) EXCEPT !.session_id = session_id, !.message = message]
           session == GetSession(session_id)
       IN tasks' = [tasks EXCEPT ![t] =
            IF session = None
            THEN Raise(task, "SessionNotFoundError")
            ELSE [task EXCEPT
                    !.pc = "invoke",
                    !.user_id = The(session).user_id,
                    !.conversation = Append(The(session).messages,
                                            Message(USER, message, None)),
                    !.window = Some(<<>>)]]
    /\ UNCHANGED <<settings, user_contexts, sessions, origin, clock, callLog>>

\* The first lines of a turn: get_session, the not-found check, the user's
\* message appended to the borrowed conversation.
chat_begin(t, op, session_id, message) ==
    /\ Free(t)
    /\ calls' = calls + 1
    /\ LET task == [Call(op) EXCEPT !.session_id = session_id, !.message = message]
           session == GetSession(session_id)
       IN tasks' = [tasks EXCEPT ![t] =
            IF session = None
            THEN Raise(task, "SessionNotFoundError")
            ELSE [task EXCEPT
                    !.pc = "generate",
                    !.user_id = The(session).user_id,
                    !.conversation = Append(The(session).messages,
                                            Message(USER, message, None))]]
    /\ UNCHANGED <<settings, user_contexts, sessions, origin, clock, callLog>>

\* Faulty variant: the turn stores the agent's message first.
FirstMessage_AgentFirst(task, response, now) ==
    Message(AGENT, AgentContent(task.op, response), Some(now))

\* The message a turn hands to its first add_message call.
FirstMessage(task, response, now) == Message(USER, task.message, Some(now))

\* The agent answered: the turn builds its first message and calls add_message.
chat_generated(t) ==
    /\ tasks[t].pc = "generate"
    /\ \E response \in Responses(tasks[t].op) :
        /\ clock' = Tick
        /\ tasks' = [tasks EXCEPT ![t] = [@ EXCEPT
                        !.pc = "am_get",
                        !.response = Some(response),
                        !.adding = Some(FirstMessage(tasks[t], response, clock))]]
    /\ UNCHANGED <<settings, user_contexts, sessions, origin, calls, callLog>>

\* Faulty variant: the user's message is stored before the agent is asked, so a failed
\* generation leaves it in the log.
chat_generate_failed_after_write(t) ==
    /\ tasks[t].pc = "generate"
    /\ sessions' = PushMessage(sessions, tasks[t].session_id,
                               Message(USER, tasks[t].message, Some(clock)))
    /\ origin' = PushOrigin(tasks[t].session_id,
                            [id |-> tasks[t].id, op |-> tasks[t].op])
    /\ tasks' = [tasks EXCEPT ![t] = Raise(@, "GenerationFailed")]
    /\ UNCHANGED <<settings, user_contexts, clock, calls, callLog>>

\* generate_response raised: the exception leaves the turn.
chat_generate_failed(t) ==
    /\ tasks[t].pc = "generate"
    /\ tasks' = [tasks EXCEPT ![t] = Raise(@, "GenerationFailed")]
    /\ UNCHANGED <<settings, user_contexts, sessions, origin, clock, calls, callLog>>

\* Faulty variant: a turn that has stored its user message keeps the session
\* to itself until its agent message is stored.
add_message_get_locked(t) ==
    /\ tasks[t].pc = "am_get"
    /\ \A o \in Tasks \ {t} :
            ~(/\ tasks[o].op \in ChatOps
              /\ tasks[o].session_id = tasks[t].session_id
              /\ tasks[o].adding # None
              /\ \/ tasks[o].pc = "am_push"
                 \/ tasks[o].pc = "am_get" /\ The(tasks[o].adding).role = AGENT)
    /\ tasks' = [tasks EXCEPT ![t] = AddMessageGet(@, The(@.adding))]
    /\ callLog' = LogCall(t, tasks[t], The(tasks[t].adding))
    /\ UNCHANGED <<settings, user_contexts, sessions, origin, clock, calls>>

\* add_message called from a turn, up to the await of update_one.
add_message_get(t) ==
    /\ tasks[t].pc = "am_get"
    /\ tasks' = [tasks EXCEPT ![t] = AddMessageGet(@, The(@.adding))]
    /\ callLog' = LogCall(t, tasks[t], The(tasks[t].adding))
    /\ UNCHANGED <<settings, user_contexts, sessions, origin, clock, calls>>

\* Faulty variant: the turn returns after its first add_message call.
AfterAddMessage_ReturnEarly(task, session, now) ==
    Return(task,
           IF task.op = TextOp
           THEN AgentContent(task.op, The(task.response))
           ELSE IF task.op = UIOp THEN The(task.response) ELSE session)

\* What the caller does with the Session add_message returned: add_message's
\* own caller gets it; a turn that stored the user's message builds the agent's
\* message and calls add_message again; a turn that stored both returns.
AfterAddMessage(task, session, now) ==
    IF task.op = "add_message" THEN Return(task, session)
    ELSE IF The(task.adding).role = USER
    THEN [task EXCEPT
            !.pc = "am_get",
            !.session = Some(session),
            !.adding = Some(Message(AGENT,
                                    AgentContent(task.op, The(task.response)),
                                    Some(now)))]
    ELSE Return(task,
                IF task.op = TextOp
                THEN AgentContent(task.op, The(task.response))
                ELSE The(task.response))

\* Faulty variant: add_message returns the Session as it read it.
add_message_push_stale(t) ==
    /\ tasks[t].pc = "am_push"
    /\ LET message == The(tasks[t].adding)
           message_doc == Message(message.role, message.content, message.created_at)
           session == The(tasks[t].session)
       IN /\ sessions' = PushMessage(sessions, tasks[t].session_id, message_doc)
          /\ origin' = PushOrigin(tasks[t].session_id,
                                  [id |-> tasks[t].id, op |-> tasks[t].op])
          /\ IF tasks[t].op \in ChatOps
             THEN /\ clock' = Tick
                  /\ tasks' = [tasks EXCEPT ![t] = AfterAddMessage(@, session, clock)]
             ELSE /\ clock' = clock
                  /\ tasks' = [tasks EXCEPT ![t] = AfterAddMessage(@, session, clock)]
    /\ UNCHANGED <<settings, user_contexts, calls, callLog>>

\* Faulty variant: add_message writes back the messages it read with the new
\* message added, instead of pushing onto the stored document.
add_message_push_overwrite(t) ==
    /\ tasks[t].pc = "am_push"
    /\ LET message == The(tasks[t].adding)
           message_doc == Message(message.role, message.content, message.created_at)
           read == The(tasks[t].session).messages
           session == [The(tasks[t].session) EXCEPT !.messages = Append(@, message)]
           hits == {i \in 1..Len(sessions) : sessions[i].sessionID = tasks[t].session_id}
           k == CHOOSE i \in hits : \A j \in hits : i <= j
       IN /\ sessions' = [sessions EXCEPT ![k].messages = Append(read, message_doc)]
          /\ origin' = [origin EXCEPT ![k] =
                            Append(SubSeq(@, 1, Len(read)),
                                   [id |-> tasks[t].id, op |-> tasks[t].op])]
          /\ IF tasks[t].op \in ChatOps
             THEN /\ clock' = Tick
                  /\ tasks' = [tasks EXCEPT ![t] = AfterAddMessage(@, session, clock)]
             ELSE /\ clock' = clock
                  /\ tasks' = [tasks EXCEPT ![t] = AfterAddMessage(@, session, clock)]
    /\ UNCHANGED <<settings, user_contexts, calls, callLog>>

\* update_one with $push, then session.messages.append(message) on the copy
\* add_message read, then the caller goes on.
add_message_push(t) ==
    /\ tasks[t].pc = "am_push"
    /\ LET message == The(tasks[t].adding)
           message_doc == Message(message.role, message.content, message.created_at)
           session == [The(tasks[t].session) EXCEPT !.messages = Append(@, message)]
       IN /\ sessions' = PushMessage(sessions, tasks[t].session_id, message_doc)
          /\ origin' = PushOrigin(tasks[t].session_id,
                                  [id |-> tasks[t].id, op |-> tasks[t].op])
          /\ IF tasks[t].op \in ChatOps
             THEN /\ clock' = Tick
                  /\ tasks' = [tasks EXCEPT ![t] = AfterAddMessage(@, session, clock)]
             ELSE /\ clock' = clock
                  /\ tasks' = [tasks EXCEPT ![t] = AfterAddMessage(@, session, clock)]
    /\ UNCHANGED <<settings, user_contexts, calls, callLog>>

\* update_one raised (the store did not take the write): add_message and its
\* caller end with the exception.
add_message_push_failed(t) ==
    /\ tasks[t].pc = "am_push"
    /\ tasks' = [tasks EXCEPT ![t] = Raise(@, "PyMongoError")]
    /\ callLog' = UnlogCall(tasks[t], The(tasks[t].adding))
    /\ UNCHANGED <<settings, user_contexts, sessions, origin, clock, calls>>

\* ------------------------------------------- InvestmentAdvisorAgentService
\* The agent service opened up: Spec sees it from the turn, as a call that
\* answers or raises; SpecGateway below runs its steps.
\* Tool calls the model may ask for within one generate_response call.
MaxToolCalls == 1
\* The largest CONVERSATION_MESSAGES_LIMIT configured.
MaxLimit == 4
\* Turns started in one behaviour of SpecGateway.
MaxTurns == 1

\* LLMProvider: the members _create_agent matches, and one it does not.
KnownProviders == {"openai", "google", "anthropic"}
Providers == KnownProviders \cup {"other"}

\* The configurations: every provider, and every limit under a known provider
\* (the limit is not read under an unknown one).
Settings ==
    {[LLM_PROVIDER |-> p, CONVERSATION_MESSAGES_LIMIT |-> MaxLimit] : p \in Providers}
        \cup {[LLM_PROVIDER |-> "openai", CONVERSATION_MESSAGES_LIMIT |-> k] : k \in 0..MaxLimit}

Min(a, b) == IF a <= b THEN a ELSE b
Max(a, b) == IF a >= b THEN a ELSE b

\* Python's seq[start:]: a negative start counts from the end, out-of-range
\* starts are clipped.
SliceFrom(seq, start) ==
    LET from == IF start < 0 THEN Max(Len(seq) + start, 0) ELSE Min(start, Len(seq))
    IN SubSeq(seq, from + 1, Len(seq))

\* Faulty variant: the cut keeps the first messages of the conversation
\* (conversation[:limit]).
ModelMessages_KeepFirst(conversation, limit) ==
    LET kept == IF Len(conversation) > limit
                THEN SubSeq(conversation, 1, limit)
                ELSE conversation
    IN [i \in 1..Len(kept) |->
            [role |-> IF kept[i].role = USER THEN "user" ELSE "assistant",
             content |-> kept[i].content]]

\* Agent.generate_response before ainvoke: the conversation cut to the limit,
\* each message as the role/content pair the model is sent.
ModelMessages(conversation, limit) ==
    LET kept == IF Len(conversation) > limit
                THEN SliceFrom(conversation, 0 - limit)
                ELSE conversation
    IN [i \in 1..Len(kept) |->
            [role |-> IF kept[i].role = USER THEN "user" ELSE "assistant",
             content |-> kept[i].content]]

\* Faulty variant: the service keeps one runtime context, made when the
\* service is constructed, and hands it to every turn.
ToolRuntimeContext_OfService(task) ==
    [object |-> 0, user_context_service |-> "user_context_service"]

\* ToolRuntimeContext(user_context_service=self._user_context_service): an
\* object constructed by the call that evaluates the expression, holding the
\* service's user-context service.  An object is named by the call that
\* constructed it.
ToolRuntimeContext(task) ==
    [object |-> task.id, user_context_service |-> "user_context_service"]

\* The names of the tools: the two @tool functions of the agent service, a
\* tool of some other remote server.
GetUserContextTool == "getUserContext"
UpdateUserContextTool == "updateUserContext"
McpTool == "mcpTool"

\* The names of the tools the MCP server of this repository registers, in the
\* order of registration.
McpAppTools == <<"updateUserContext", "getUserContext">>

\* What mcp_client.get_tools() can answer: no tool, the tool of another
\* server, the tools of this repository's MCP server.
Catalogs == {<<>>, <<McpTool>>, McpAppTools}

\* internal_tools and tools of _create_agent, as the lists of tool names.
InternalTools == <<UpdateUserContextTool, GetUserContextTool>>
MergedTools(mcp_tools) == mcp_tools \o InternalTools

\* Faulty variant: an unknown provider falls back to a default model.
create_agent_any_provider(t, mcp_tools) ==
    /\ tasks[t].pc = "generate"
    /\ tasks' = [tasks EXCEPT ![t] =
            [@ EXCEPT !.pc = "invoke",
                      !.tools = MergedTools(mcp_tools),
                      !.window = Some(ModelMessages(tasks[t].conversation,
                                        settings.CONVERSATION_MESSAGES_LIMIT))]]
    /\ UNCHANGED <<user_contexts, sessions, settings, origin, clock, calls, callLog>>

\* generate_response once get_tools has answered: _create_agent matches the
\* provider and raises ValueError for an unknown one; otherwise the Agent is
\* built and its generate_response cuts the conversation and awaits ainvoke.
create_agent(t, mcp_tools) ==
    /\ tasks[t].pc = "generate"
    /\ tasks' = [tasks EXCEPT ![t] =
            IF settings.LLM_PROVIDER \in KnownProviders
            THEN [@ EXCEPT !.pc = "invoke",
                           !.tools = MergedTools(mcp_tools),
                           !.runtime_context = Some(ToolRuntimeContext(tasks[t])),
                           !.window = Some(ModelMessages(tasks[t].conversation,
                                             settings.CONVERSATION_MESSAGES_LIMIT))]
            ELSE Raise(@, "ValueError")]
    /\ UNCHANGED <<user_contexts, sessions, settings, origin, clock, calls, callLog>>

\* Faulty variant: a failure of get_tools is caught and the agent runs with
\* the local tools alone.
get_tools_failed_swallowed(t) ==
    /\ tasks[t].pc = "generate"
    /\ tasks' = [tasks EXCEPT ![t] =
            [@ EXCEPT !.pc = "invoke",
                      !.tools = InternalTools,
                      !.window = Some(ModelMessages(tasks[t].conversation,
                                        settings.CONVERSATION_MESSAGES_LIMIT))]]
    /\ UNCHANGED <<user_contexts, sessions, settings, origin, clock, calls, callLog>>

\* mcp_client.get_tools() raised: the exception leaves the turn.
get_tools_failed(t) ==
    /\ tasks[t].pc = "generate"
    /\ tasks' = [tasks EXCEPT ![t] = Raise(@, "ToolCatalogError")]
    /\ UNCHANGED <<user_contexts, sessions, settings, origin, clock, calls, callLog>>

\* request.tool_call: the tool calls the model may make next in this turn,
\* each naming a tool the agent was built with.
ToolCalls(task) ==
    LET id == "call-" \o ToString(Len(task.trace) + 1)
        call(name, user_id) == [id |-> id, name |-> name, user_id |-> user_id]
        names == {task.tools[i] : i \in DOMAIN task.tools}
    IN {call(n, "") : n \in names \cap {McpTool}}
        \cup {call(n, u) : n \in names \cap {GetUserContextTool, UpdateUserContextTool},
                           u \in Users}

\* str(e) of the exceptions a tool raises.
UserContextNotFoundText(user_id) == "User context not found for user_id: " \o user_id
McpToolErrorText == "mcp tool failed"

\* handler(request): the ways the tool can run from here, each with what it
\* raises (None: it returns), the text of what it returns and the user-context
\* collection it leaves.  getUserContext returns the context or None;
\* updateUserContext is update_user_context with a complete context; a remote
\* tool answers or raises.
ToolRuns(request, now) ==
    LET run(raised, content, contexts) ==
            [raised |-> raised, content |-> content, contexts |-> contexts]
    IN IF request.name = GetUserContextTool
       THEN {run(None,
                 IF FindOne(user_contexts, "user_id", request.user_id) = None
                 THEN "None" ELSE "UserContext",
                 user_contexts)}
       ELSE IF request.name = UpdateUserContextTool
       THEN LET mongo_doc == UserContextMongoDoc(
                                request.user_id,
                                CHOOSE p \in Profiles : TRUE,
                                CHOOSE f \in Portfolios : TRUE,
                                None, Some(now))
                after == FindOneAndUpdate(user_contexts, request.user_id, mongo_doc)
            IN IF FindOne(after, "user_id", request.user_id) = None
               THEN {run(Some(UserContextNotFoundText(request.user_id)), "", after)}
               ELSE {run(None, "UserContext", after)}
       ELSE {run(None, "result", user_contexts),
             run(Some(McpToolErrorText), "", user_contexts)}

ToolMessage(content, tool_call_id) == [content |-> content, tool_call_id |-> tool_call_id]

\* Faulty variant: the middleware lets the exception through.
awrap_tool_call_uncaught(request, run) ==
    IF run.raised = None
    THEN [returned |-> Some(ToolMessage(run.content, request.id)), raised |-> None]
    ELSE [returned |-> None, raised |-> Some("ToolException")]

\* ToolErrorMiddleware.awrap_tool_call around the handler: the tool's message,
\* or for an exception the message made of its text and the call's id.
awrap_tool_call(request, run) ==
    IF run.raised = None
    THEN [returned |-> Some(ToolMessage(run.content, request.id)), raised |-> None]
    ELSE [returned |-> Some(ToolMessage("Tool error: (" \o The(run.raised) \o ")",
                                        request.id)),
          raised |-> None]

\* Faulty variant: what a tool writes is held back until the turn has its
\* answer; the collection is not touched while the agent loop runs.
tool_call_buffered(t) ==
    /\ tasks[t].pc = "invoke"
    /\ Len(tasks[t].trace) < MaxToolCalls
    /\ \E request \in ToolCalls(tasks[t]) :
        \E run \in ToolRuns(request, clock) :
            LET wrapped == awrap_tool_call(request, run)
            IN /\ user_contexts' = user_contexts
               /\ clock' = IF request.name = UpdateUserContextTool THEN Tick ELSE clock
               /\ tasks' = [tasks EXCEPT ![t] =
                    IF wrapped.raised = None
                    THEN [@ EXCEPT !.trace = Append(@,
                            [request |-> request, raised |-> run.raised,
                             context |-> The(tasks[t].runtime_context).object,
                             message |-> The(wrapped.returned)])]
                    ELSE Raise(@, The(wrapped.raised))]
    /\ UNCHANGED <<sessions, settings, origin, calls, callLog>>

\* One tool call of the agent loop: the model asked for it, the middleware
\* ran it, its message joins the messages the model is called with next.  The
\* trace keeps, with each message, the call and what the tool raised.
tool_call(t) ==
    /\ tasks[t].pc = "invoke"
    /\ Len(tasks[t].trace) < MaxToolCalls
    /\ \E request \in ToolCalls(tasks[t]) :
        \E run \in ToolRuns(request, clock) :
            LET wrapped == awrap_tool_call(request, run)
            IN /\ user_contexts' = run.contexts
               /\ clock' = IF request.name = UpdateUserContextTool THEN Tick ELSE clock
               /\ tasks' = [tasks EXCEPT ![t] =
                    IF wrapped.raised = None
                    THEN [@ EXCEPT !.trace = Append(@,
                            [request |-> request, raised |-> run.raised,
                             context |-> The(tasks[t].runtime_context).object,
                             message |-> The(wrapped.returned)])]
                    ELSE Raise(@, The(wrapped.raised))]
    /\ UNCHANGED <<sessions, settings, origin, calls, callLog>>

\* ainvoke ended with the structured response: generate_response returns it
\* and the turn builds its first message and calls add_message.
agent_responded(t) ==
    /\ tasks[t].pc = "invoke"
    /\ \E response \in Responses(tasks[t].op) :
        /\ clock' = Tick
        /\ tasks' = [tasks EXCEPT ![t] = [@ EXCEPT
                        !.pc = "am_get",
                        !.response = Some(response),
                        !.adding = Some(FirstMessage(tasks[t], response, clock))]]
    /\ UNCHANGED <<user_contexts, sessions, settings, origin, calls, callLog>>

\* ainvoke raised (the model call failed): the exception leaves the turn.
agent_failed(t) ==
    /\ tasks[t].pc = "invoke"
    /\ tasks' = [tasks EXCEPT ![t] = Raise(@, "GenerationFailed")]
    /\ UNCHANGED <<user_contexts, sessions, settings, origin, clock, calls, callLog>>

\* ------------------------------------------------------------------ routers
\* The route handlers around the service calls: the status of the response
\* for a service call that ended as the task records.  An exception no
\* handler catches reaches the application's handler for Exception, which
\* answers 500.
route_create_session(task) ==
    IF task.error = "SessionAlreadyExistsError" THEN 409
    ELSE IF task.error = "UserContextNotFoundError" THEN 400
    ELSE 500

route_get_session(task) ==
    IF task.error # "" THEN 500
    ELSE IF task.returned = None THEN 404
    ELSE 500

route_create_user_context(task) ==
    IF task.error = "UserContextAlreadyExistsError" THEN 409
    ELSE IF task.error # "" THEN 500
    ELSE 201

route_get_user_context(task) ==
    IF task.error # "" THEN 500
    ELSE IF task.returned = None THEN 404
    ELSE 200

\* The handler calls update_user_context(user_id=..., user_context=...), a
\* keyword the service method does not take: the call raises TypeError before
\* the store is reached, whatever the store holds, and the handler catches
\* UserContextNotFoundError only.
route_update_user_context(task) == 500

route_chat(task) ==
    IF task.error = "SessionNotFoundError" THEN 404
    ELSE IF task.error # "" THEN 500
    ELSE 200

\* The service calls that have a route.
RoutedOps ==
    {"create_session", "get_session", "create_user_context", "get_user_context",
     "update_user_context"} \cup ChatOps

StatusCode(task) ==
    IF task.op = "create_session" THEN route_create_session(task)
    ELSE IF task.op = "get_session" THEN route_get_session(task)
    ELSE IF task.op = "create_user_context" THEN route_create_user_context(task)
    ELSE IF task.op = "get_user_context" THEN route_get_user_context(task)
    ELSE IF task.op = "update_user_context" THEN route_update_user_context(task)
    ELSE route_chat(task)

\* ------------------------------------------------------------ gen_ui_models
\* ComponentType: the values of the enumeration.
ComponentType ==
    {"text", "security_card", "metrics_grid", "portfolio_holdings",
     "sector_performance", "time_series_chart", "news_feed", "comparison_table",
     "financial_statement", "investment_calculator", "super_investor_card",
     "allocation_chart", "economic_indicator", "crypto_card", "alert",
     "insights", "action_suggestions"}

\* The members of the Union of GenerativeUIResponseFormat.components: each
\* class with the default of its type field and the fields it declares
\* without a default.  The type field itself is a ComponentType in every
\* class; the other fields of a class and of UIComponent have defaults.
ComponentClasses ==
    LET class(name, type, required) ==
            [name |-> name, type |-> type, required |-> required]
    IN {class("TextComponent", "text", {"content"}),
        class("InsightComponent", "insights", {"headline", "insights"}),
        class("AlertComponent", "alert", {"message"}),
        class("SecurityCardComponent", "security_card", {"symbol", "name", "price"}),
        class("MetricsGridComponent", "metrics_grid", {"metrics"}),
        class("EconomicIndicatorComponent", "economic_indicator",
              {"indicator_name", "current_value", "as_of_date"}),
        class("PortfolioHoldingsComponent", "portfolio_holdings", {"holdings"}),
        class("ComparisonTableComponent", "comparison_table", {"entities", "rows"}),
        class("SectorPerformanceComponent", "sector_performance", {"sectors"}),
        class("FinancialStatementComponent", "financial_statement",
              {"statement_type", "periods", "rows"}),
        class("TimeSeriesChartComponent", "time_series_chart", {"series"}),
        class("AllocationChartComponent", "allocation_chart",
              {"allocations", "allocation_type"}),
        class("NewsFeedComponent", "news_feed", {"articles"}),
        class("InvestmentCalculatorComponent", "investment_calculator",
              {"initial_investment", "annual_return", "years", "final_value",
               "total_return", "total_return_percent", "projections"}),
        class("ActionSuggestionsComponent", "action_suggestions", {"suggestions"})}

\* A payload of one component: the value under "type" (None: the key is
\* absent) and the other keys it carries, each with a value of the kind the
\* class declaring that key expects.
Payload(type, fields) == [type |-> type, fields |-> fields]

\* Validation of a payload as one class: the value under "type" must be a
\* ComponentType (the class's default stands in for an absent key), every
\* field without a default must be present, and keys the class does not
\* declare are ignored.  The result is the component built, or None.
ValidateAs(class, payload) ==
    IF /\ payload.type = None \/ The(payload.type) \in ComponentType
       /\ class.required \subseteq payload.fields
    THEN Some([class |-> class.name,
               type |-> IF payload.type = None THEN class.type ELSE The(payload.type)])
    ELSE None

\* Validation against the Union: the components the member classes build from
\* the payload.  The Union names no discriminator, so every member is tried.
ValidateUnion(payload) ==
    {The(ValidateAs(class, payload)) :
        class \in {c \in ComponentClasses : ValidateAs(c, payload) # None}}

\* The payloads offered for validation: every tag of the enumeration, a tag
\* outside it and no tag, with the required fields of one class, of none, or
\* of two classes.
UnknownTag == "hologram"
PayloadTypes == {None} \cup {Some(tag) : tag \in ComponentType \cup {UnknownTag}}
PayloadFields ==
    {class.required : class \in ComponentClasses}
        \cup {{}, {"content", "message"}}
Payloads == {Payload(type, fields) : type \in PayloadTypes, fields \in PayloadFields}

\* GenerativeUIResponseFormat(components=[payload]): the model is built with
\* one of the components the Union yields, or validation fails.
model_validate(t, payload) ==
    /\ Free(t)
    /\ calls' = calls + 1
    /\ LET task == [Call("model_validate") EXCEPT !.doc = Some(payload)]
       IN IF ValidateUnion(payload) = {}
          THEN tasks' = [tasks EXCEPT ![t] = Raise(task, "ValidationError")]
          ELSE \E component \in ValidateUnion(payload) :
                    tasks' = [tasks EXCEPT ![t] =
                                Return(task, GenerativeUIResponseFormat(<<component>>))]
    /\ UNCHANGED <<settings, user_contexts, sessions, origin, clock, callLog>>

\* ---------------------------------------------------------------- behaviours
\* The messages a caller of add_message passes.
Messages ==
    {Message(USER, m, None) : m \in Contents}
        \cup {Message(AGENT, r, Some(clock)) : r \in TextReplies}

Step(t) ==
    \/ \E u \in Users, c \in ContextInputs : create_user_context_check(t, u, c[1], c[2])
    \/ create_user_context_insert(t)
    \/ \E u \in Users : get_user_context(t, u)
    \/ \E u \in Users, c \in ContextInputs : update_user_context_begin(t, u, c[1], c[2])
    \/ update_user_context_write(t)
    \/ \E s \in SessionIds : get_session(t, s)
    \/ \E u \in Users, s \in {None} \cup {Some(i) : i \in SessionIds \cup {""}} : create_session_begin(t, u, s)
    \/ create_session_insert(t)
    \/ \E s \in SessionIds, m \in Messages : add_message_begin(t, s, m)
    \/ \E op \in ChatOps, s \in SessionIds, m \in Contents : chat_begin(t, op, s, m)
    \/ chat_generated(t)
    \/ chat_generate_failed(t)
    \/ add_message_get(t)
    \/ add_message_push(t)
    \/ add_message_push_failed(t)

Next == \E t \in Tasks : Step(t)

Spec == Init /\ [][Next]_vars

\* Sequential callers: a task moves only while every other task is outside a call.
SeqNext == \E t \in Tasks : (\A o \in Tasks \ {t} : Quiet(o)) /\ Step(t)

SpecSeq == Init /\ [][SeqNext]_vars

\* Turns with the agent service opened up, one after the other, under every
\* configuration, on the collections that hold a session.
InitGateway ==
    /\ settings \in Settings
    /\ user_contexts = <<SeedContext>>
    /\ sessions = <<SeedSession>>
    /\ origin = <<SeedOrigin>>
    /\ tasks = [t \in Tasks |-> IdleTask]
    /\ clock = 1
    /\ calls = 0
    /\ callLog = [s \in AllSessionIds |-> <<>>]

GatewayStep(t) ==
    \/ \E op \in ChatOps, s \in SessionIds, m \in Contents :
            calls < MaxTurns /\ chat_begin(t, op, s, m)
    \/ create_agent(t, <<McpTool>>)
    \/ get_tools_failed(t)
    \/ tool_call(t)
    \/ agent_responded(t)
    \/ agent_failed(t)
    \/ add_message_get(t)
    \/ add_message_push(t)
    \/ add_message_push_failed(t)

\* One turn at a time.
NextGateway == \E t \in Tasks : (\A o \in Tasks \ {t} : Quiet(o)) /\ GatewayStep(t)

SpecGateway == InitGateway /\ [][NextGateway]_vars

\* Concurrent turns with the agent service opened up, under the default
\* configuration, on the collections that hold a session.
InitTurns == InitGateway /\ settings = DefaultSettings

TurnStep(t) ==
    \/ \E s \in SessionIds, m \in Contents : chat_begin(t, TextOp, s, m)
    \/ create_agent(t, <<McpTool>>)
    \/ get_tools_failed(t)
    \/ tool_call(t) /\ tasks'[t].trace[Len(tasks'[t].trace)].request
                            = [id |-> "call-" \o ToString(Len(tasks'[t].trace)),
                               name |-> GetUserContextTool,
                               user_id |-> tasks[t].user_id]
    \/ agent_responded(t)
    \/ agent_failed(t)
    \/ add_message_get(t)
    \/ add_message_push(t)
    \/ add_message_push_failed(t)

NextTurns == \E t \in Tasks : TurnStep(t)

SpecTurns == InitTurns /\ [][NextTurns]_vars

\* Turns, one at a time, on collections that hold the contexts of two users
\* and a session of the first.
SeedContextOther == UserContextMongoDoc("u2", {<<"age", 41>>}, <<>>, Some(0), None)

\* A second stored session, of the second user, with no message yet.
SeedSessionOther == SessionMongoDoc("s2", "u2", <<>>)

InitTools ==
    /\ settings = DefaultSettings
    /\ user_contexts = <<SeedContext, SeedContextOther>>
    /\ sessions = <<SeedSession, SeedSessionOther>>
    /\ origin = <<SeedOrigin, <<>>>>
    /\ tasks = [t \in Tasks |-> IdleTask]
    /\ clock = 1
    /\ calls = 0
    /\ callLog = [s \in AllSessionIds |-> <<>>]

\* Text turns, one at a time, with every catalog get_tools can answer.
ToolsStep(t) ==
    \/ \E s \in SessionIds, m \in Contents :
            calls < MaxTurns /\ chat_begin(t, TextOp, s, m)
    \/ \E mcp_tools \in Catalogs : create_agent(t, mcp_tools)
    \/ get_tools_failed(t)
    \/ tool_call(t)
    \/ agent_responded(t)
    \/ agent_failed(t)
    \/ add_message_get(t)
    \/ add_message_push(t)
    \/ add_message_push_failed(t)

NextTools == \E t \in Tasks : (\A o \in Tasks \ {t} : Quiet(o)) /\ ToolsStep(t)

SpecTools == InitTools /\ [][NextTools]_vars

\* Payloads validated as GenerativeUIResponseFormat, one call after the other.
InitUI ==
    /\ settings = DefaultSettings
    /\ user_contexts = <<>>
    /\ sessions = <<>>
    /\ origin = <<>>
    /\ tasks = [t \in Tasks |-> IdleTask]
    /\ clock = 1
    /\ calls = 0
    /\ callLog = [s \in AllSessionIds |-> <<>>]

NextUI == \E t \in Tasks : \E payload \in Payloads : model_validate(t, payload)

SpecUI == InitUI /\ [][NextUI]_vars

\* ---------------------------------------------------------------- properties
Done(t) == tasks[t].pc = "done"

IsPrefix(a, b) == Len(a) <= Len(b) /\ SubSeq(b, 1, Len(a)) = a

\* The position of the stored session with this id (0: none).
IndexOf(session_id) ==
    LET hits == {i \in 1..Len(sessions) : sessions[i].sessionID = session_id}
    IN IF hits = {} THEN 0 ELSE CHOOSE i \in hits : \A j \in hits : i <= j

StoredMessages(session_id) ==
    IF IndexOf(session_id) = 0 THEN <<>> ELSE sessions[IndexOf(session_id)].messages

\* The positions of the stored log that task t's current call pushed.
OwnPositions(t) ==
    LET k == IndexOf(tasks[t].session_id)
    IN IF k = 0 THEN {}
       ELSE {i \in 1..Len(origin[k]) : origin[k][i].id = tasks[t].id}

\* The log as the turn of task t read it at its start.
LogAtStart(t) == SubSeq(tasks[t].conversation, 1, Len(tasks[t].conversation) - 1)

\* C1: a successful generate_text_response has appended exactly two messages
\* to the stored log of its session, first the user's message and later the
\* agent's reply, the reply being the text it returned, each with a creation
\* timestamp; the messages the log held when the turn began are still its
\* first messages, unchanged.
C1_TextTurnAppendsUserThenAgent ==
    \A t \in Tasks :
        (Done(t) /\ tasks[t].op = TextOp /\ tasks[t].error = "") =>
            LET msgs == StoredMessages(tasks[t].session_id)
                own == OwnPositions(t)
            IN /\ Cardinality(own) = 2
               /\ IsPrefix(LogAtStart(t), msgs)
               /\ \E i \in own, j \in own :
                    /\ Len(LogAtStart(t)) < i /\ i < j
                    /\ msgs[i].role = USER
                    /\ msgs[i].content = tasks[t].message
                    /\ msgs[i].created_at # None
                    /\ msgs[j].role = AGENT
                    /\ msgs[j].content = The(tasks[t].returned)
                    /\ msgs[j].created_at # None

C1_Witness ==
    \E t \in Tasks :
        /\ Done(t) /\ tasks[t].op = TextOp /\ tasks[t].error = ""
        /\ Len(StoredMessages(tasks[t].session_id)) = Len(LogAtStart(t)) + 2

\* A turn whose generate_response call raised has pushed no message, at the
\* failure or afterwards, and the log it read is still a prefix of the log.
C2_FailedTurnPushedNothing ==
    \A t \in Tasks :
        (Done(t) /\ tasks[t].op \in ChatOps /\ tasks[t].error = "GenerationFailed") =>
            /\ OwnPositions(t) = {}
            /\ IsPrefix(LogAtStart(t), StoredMessages(tasks[t].session_id))

\* The step in which generation fails leaves the session collection as it was.
C2_FailureStepWritesNothing ==
    \A t \in Tasks :
        (tasks[t].pc = "generate" /\ tasks'[t].error = "GenerationFailed") =>
            sessions' = sessions

\* C2: no message of a turn whose generation failed is in the stored log, and
\* the failing step writes nothing to the session collection.
C2_NoWriteWhenGenerationFails ==
    [](C2_FailedTurnPushedNothing) /\ [][C2_FailureStepWritesNothing]_vars

C2_Witness ==
    \E t \in Tasks :
        /\ Done(t) /\ tasks[t].op \in ChatOps /\ tasks[t].error = "GenerationFailed"
        /\ StoredMessages(tasks[t].session_id) = LogAtStart(t)

\* C3: whenever a turn has finished, with a result or with any exception, the
\* stored log holds either both messages of the turn or none of them.
C3_TurnAllOrNothing ==
    \A t \in Tasks :
        (Done(t) /\ tasks[t].op \in ChatOps) => Cardinality(OwnPositions(t)) \in {0, 2}

\* C4: in every stored log, an agent message pushed by a turn stands at a later
\* position than the user message the same turn pushed.
C4_UserBeforeAgent ==
    \A k \in 1..Len(sessions) :
        \A j \in 1..Len(sessions[k].messages) :
            (origin[k][j].op \in ChatOps /\ sessions[k].messages[j].role = AGENT) =>
                \E i \in 1..(j - 1) :
                    /\ origin[k][i].id = origin[k][j].id
                    /\ sessions[k].messages[i].role = USER

\* Two turns whose pushes interleave: user_A, user_B, agent_A.
C4_Witness ==
    \E k \in 1..Len(sessions) :
        \E h, i, j \in 1..Len(sessions[k].messages) :
            /\ h < i /\ i < j
            /\ origin[k][h].op \in ChatOps /\ origin[k][i].op \in ChatOps
            /\ origin[k][h].id = origin[k][j].id
            /\ origin[k][i].id # origin[k][h].id
            /\ sessions[k].messages[h].role = USER
            /\ sessions[k].messages[i].role = USER
            /\ sessions[k].messages[j].role = AGENT

HasUserContext(user_id) == FindOne(user_contexts, "user_id", user_id) # None

\* C5: with sequential callers, once create_user_context(u) has returned a
\* context, a finished create_session(u, ...) that did not meet an existing
\* session id has succeeded and the store holds its session, for user u and
\* with no messages.
C5_CreateSessionFindsCreatedUser ==
    \A t \in Tasks, c \in Tasks :
        ( /\ Done(t) /\ tasks[t].op = "create_session"
          /\ tasks[t].error # "SessionAlreadyExistsError"
          /\ Done(c) /\ tasks[c].op = "create_user_context" /\ tasks[c].error = ""
          /\ tasks[c].user_id = tasks[t].user_id
          /\ tasks[c].id < tasks[t].id ) =>
            /\ tasks[t].error = ""
            /\ IndexOf(tasks[t].session_id) # 0
            /\ sessions[IndexOf(tasks[t].session_id)].user_id = tasks[t].user_id
            /\ sessions[IndexOf(tasks[t].session_id)].messages = <<>>

\* C6 as stated: a finished create_session for a user without a user context
\* has failed with UserContextNotFound.
C6_GhostUserAlwaysUserContextNotFound ==
    \A t \in Tasks :
        (Done(t) /\ tasks[t].op = "create_session" /\ ~HasUserContext(tasks[t].user_id)) =>
            tasks[t].error = "UserContextNotFoundError"

\* A finished create_session for a user without a user context has failed.
C6_GhostUserRefused ==
    \A t \in Tasks :
        (Done(t) /\ tasks[t].op = "create_session" /\ ~HasUserContext(tasks[t].user_id)) =>
            \/ tasks[t].error = "UserContextNotFoundError"
            \/ /\ tasks[t].error = "SessionAlreadyExistsError"
               /\ IndexOf(tasks[t].session_id) # 0

\* No step of a create_session for such a user changes the session collection.
C6_GhostUserStepWritesNothing ==
    \A t \in Tasks :
        ( /\ tasks'[t].op = "create_session"
          /\ tasks'[t] # tasks[t]
          /\ ~HasUserContext(tasks'[t].user_id) ) =>
            sessions' = sessions

\* C6 (amended): a finished create_session for a user without a user context
\* has failed, with UserContextNotFound or, when the session id it was given is
\* the id of a stored session, with SessionAlreadyExists; and no step of such a
\* call changes the session collection.
C6_GhostUserCreatesNoSession ==
    [](C6_GhostUserRefused) /\ [][C6_GhostUserStepWritesNothing]_vars

C6_Witness ==
    \E t \in Tasks :
        /\ Done(t) /\ tasks[t].op = "create_session"
        /\ ~HasUserContext(tasks[t].user_id)
        /\ tasks[t].error = "UserContextNotFoundError"
        /\ IndexOf(tasks[t].session_id) = 0

\* C7: every stored session has a user_id for which a user context is stored.
C7_SessionsHaveUserContext ==
    \A k \in 1..Len(sessions) : HasUserContext(sessions[k].user_id)

\* Sessions are stored, and a create_session for a user without a context has
\* gone through its check while a turn was writing to a session.
C7_Witness ==
    /\ Len(sessions) > 0
    /\ \E t \in Tasks, o \in Tasks :
        /\ Done(t) /\ tasks[t].op = "create_session"
        /\ tasks[t].error = "UserContextNotFoundError"
        /\ tasks[o].op \in ChatOps /\ OwnPositions(o) # {}

\* The messages of the add_message calls on a session, in call order.
Appended(session_id) ==
    [n \in 1..Len(callLog[session_id]) |-> callLog[session_id][n].message]

\* The messages a session held before the first call.
InitialMessages(k) ==
    IF \E i \in 1..Len(origin[k]) : origin[k][i].op = "seed" THEN SeedMessages ELSE <<>>

\* C8: with sequential callers, between calls, get_session returns for every
\* stored session its initial messages followed by the messages of the
\* add_message calls made on it, in call order, each with its role, content
\* and created_at.
C8_SequentialAppendsInOrder ==
    (\A t \in Tasks : Quiet(t)) =>
        \A k \in 1..Len(sessions) :
            The(GetSession(sessions[k].sessionID)).messages
                = InitialMessages(k) \o Appended(sessions[k].sessionID)

\* Two add_message calls by two different callers have been stored.
C8_Witness ==
    /\ \A t \in Tasks : Quiet(t)
    /\ \E s \in SessionIds :
        /\ Len(callLog[s]) = 2
        /\ callLog[s][1].id # callLog[s][2].id
        /\ callLog[s][1].message # callLog[s][2].message
        /\ Len(Appended(s)) = 2

\* A step leaves every stored session in place with its id, the messages it
\* held are a prefix of the messages it holds afterwards, and a session the
\* step adds has no messages.
C9_Step ==
    /\ Len(sessions) <= Len(sessions')
    /\ \A k \in 1..Len(sessions) :
        /\ sessions'[k].sessionID = sessions[k].sessionID
        /\ IsPrefix(sessions[k].messages, sessions'[k].messages)
    /\ \A k \in (Len(sessions) + 1)..Len(sessions') : sessions'[k].messages = <<>>

\* C9: across every step of every behaviour, concurrent turns included, the
\* messages stored for a session before the step are a prefix of the messages
\* stored after it, and a session is created with no messages.
C9_LogGrowsOnlyByAppend == [][C9_Step]_vars

C9_Witness ==
    \E k \in 1..Len(sessions) :
        /\ Len(sessions[k].messages) = Len(InitialMessages(k)) + 2
        /\ \E t \in Tasks : tasks[t].pc = "am_push" /\ tasks[t].session_id = sessions[k].sessionID

\* A create_user_context call that finds a record for its user_id ends in
\* that step with UserContextAlreadyExists, the collection left as it was.
C10_Step ==
    \A t \in Tasks :
        ( /\ tasks'[t].op = "create_user_context"
          /\ tasks'[t].id # tasks[t].id
          /\ HasUserContext(tasks'[t].user_id) ) =>
            /\ tasks'[t].pc = "done"
            /\ tasks'[t].error = "UserContextAlreadyExistsError"
            /\ user_contexts' = user_contexts

\* C10: a create_user_context for a user_id that already has a record fails
\* with UserContextAlreadyExists and leaves the stored record (profile,
\* portfolio, created_at, updated_at) as it was.
C10_SecondCreateFails == [][C10_Step]_vars

\* A first call created the record, a second call for the same user failed,
\* and the record is the document the first call wrote.
C10_Witness ==
    \E a \in Tasks, b \in Tasks :
        /\ Done(a) /\ tasks[a].op = "create_user_context" /\ tasks[a].error = ""
        /\ Done(b) /\ tasks[b].op = "create_user_context"
        /\ tasks[b].error = "UserContextAlreadyExistsError"
        /\ tasks[a].user_id = tasks[b].user_id
        /\ tasks[a].id < tasks[b].id
        /\ FindOne(user_contexts, "user_id", tasks[a].user_id) = tasks[a].doc

\* The record get_user_context finds for a user after the step.
StoredContextAfter(user_id) == FindOne(user_contexts', "user_id", user_id)

\* An update_user_context call whose find_one_and_update finds no record for
\* its user_id ends in that step with UserContextNotFound and the step leaves
\* the user-context collection as it was; the step before it writes nothing.
C11_Step ==
    \A t \in Tasks :
        /\ (tasks[t].pc = "uuc_update" /\ tasks'[t] # tasks[t]
                /\ ~HasUserContext(tasks[t].user_id)) =>
            /\ tasks'[t].pc = "done"
            /\ tasks'[t].error = "UserContextNotFoundError"
            /\ tasks'[t].returned = None
            /\ user_contexts' = user_contexts
        /\ (tasks[t].pc # "uuc_update" /\ tasks'[t].pc = "uuc_update") =>
            user_contexts' = user_contexts

\* C11: update_user_context for a user_id with no stored record fails with
\* UserContextNotFound and writes nothing: no record is created and every
\* stored record is unchanged.
C11_UpdateOfMissingUserFails == [][C11_Step]_vars

C11_Witness ==
    \E t \in Tasks :
        /\ Done(t) /\ tasks[t].op = "update_user_context"
        /\ tasks[t].error = "UserContextNotFoundError"
        /\ ~HasUserContext(tasks[t].user_id)
        /\ Len(user_contexts) > 0

\* A successful update_user_context leaves, for its user, a record from which
\* get_user_context returns the supplied profile and portfolio, the empty
\* map and the empty sequence standing for what was not supplied, and the
\* call returns that context.
C12_Step ==
    \A t \in Tasks :
        (tasks[t].pc = "uuc_update" /\ tasks'[t].pc = "done" /\ tasks'[t].error = "") =>
            LET got == ToUserContext(The(StoredContextAfter(tasks[t].user_id)))
            IN /\ StoredContextAfter(tasks[t].user_id) # None
               /\ got.user_profile =
                    (IF tasks[t].user_profile = None THEN {} ELSE The(tasks[t].user_profile))
               /\ got.user_portfolio =
                    (IF tasks[t].user_portfolio = None THEN <<>> ELSE The(tasks[t].user_portfolio))
               /\ tasks'[t].returned = Some(got)

\* C12: update_user_context replaces, it never merges: after a successful
\* update get_user_context returns exactly the supplied profile and portfolio,
\* and a profile or portfolio that was not supplied is stored empty.
C12_UpdateIsFullReplace == [][C12_Step]_vars

\* An update that supplied nothing has emptied a record that held a profile.
C12_Witness ==
    \E t \in Tasks :
        /\ Done(t) /\ tasks[t].op = "update_user_context" /\ tasks[t].error = ""
        /\ tasks[t].user_profile = None /\ tasks[t].user_portfolio = None
        /\ tasks[t].user_id = SeedContext.user_id
        /\ \E k \in 1..Len(user_contexts) :
            /\ user_contexts[k].user_id = tasks[t].user_id
            /\ user_contexts[k].created_at = SeedContext.created_at
            /\ user_contexts[k].user_profile = {}
            /\ user_contexts[k].user_portfolio = <<>>

\* A step keeps every stored record with its user_id and its created_at; a
\* successful update stamps updated_at with the time it read, the last time
\* read; and updated_at is never set back.
C13_Step ==
    /\ Len(user_contexts) <= Len(user_contexts')
    /\ \A k \in 1..Len(user_contexts) :
        /\ user_contexts'[k].user_id = user_contexts[k].user_id
        /\ user_contexts'[k].created_at = user_contexts[k].created_at
        /\ user_contexts[k].updated_at # None =>
            /\ user_contexts'[k].updated_at # None
            /\ The(user_contexts[k].updated_at) <= The(user_contexts'[k].updated_at)
    /\ \A t \in Tasks :
        (tasks[t].pc = "uuc_update" /\ tasks'[t].pc = "done" /\ tasks'[t].error = "") =>
            The(StoredContextAfter(tasks[t].user_id)).updated_at = Some(clock - 1)

\* C13: with sequential callers, whatever updates are made, a record keeps the
\* created_at of its creation, each successful update sets updated_at to the
\* time of that update, and updated_at never decreases.
C13_CreatedAtKeptUpdatedAtAdvances == [][C13_Step]_vars

\* Two successive updates of one record: the second stamp is the later one and
\* is the stored one, the creation stamp is still there.
C13_Witness ==
    \E a \in Tasks, b \in Tasks :
        /\ Done(a) /\ tasks[a].op = "update_user_context" /\ tasks[a].error = ""
        /\ Done(b) /\ tasks[b].op = "update_user_context" /\ tasks[b].error = ""
        /\ tasks[a].user_id = tasks[b].user_id
        /\ tasks[a].id < tasks[b].id
        /\ The(The(tasks[a].returned).updated_at) < The(The(tasks[b].returned).updated_at)
        /\ \E k \in 1..Len(user_contexts) :
            /\ user_contexts[k].user_id = tasks[b].user_id
            /\ user_contexts[k].updated_at = The(tasks[b].returned).updated_at
            /\ user_contexts[k].created_at = SeedContext.created_at

\* A create_session call that is given the id of a stored session ends in its
\* first step with SessionAlreadyExists and the step leaves the session
\* collection as it was; a call that is given no id, or the empty string,
\* carries a uuid4 that is no stored session's id and no other call's id.
C14_Step ==
    \A t \in Tasks :
        (tasks'[t].op = "create_session" /\ tasks'[t].id # tasks[t].id) =>
            /\ IndexOf(tasks'[t].session_id) # 0 =>
                /\ tasks'[t].pc = "done"
                /\ tasks'[t].error = "SessionAlreadyExistsError"
                /\ sessions' = sessions
            /\ tasks'[t].session_id \notin SessionIds =>
                /\ tasks'[t].session_id = Uuid4(tasks'[t].id)
                /\ tasks'[t].session_id # ""
                /\ IndexOf(tasks'[t].session_id) = 0
                /\ \A o \in Tasks \ {t} : tasks[o].session_id # tasks'[t].session_id

\* C14: create_session with the id of an existing session fails with
\* SessionAlreadyExists and leaves that session, its user_id and its messages,
\* unchanged; without a session_id the call uses a freshly generated id.
C14_ExistingIdRefusedFreshIdGenerated == [][C14_Step]_vars

\* One call drew a fresh id, a later one was refused for the stored id, and
\* the stored session is as it was.
C14_Witness ==
    \E a \in Tasks, b \in Tasks :
        /\ tasks[a].op = "create_session" /\ tasks[a].session_id = Uuid4(tasks[a].id)
        /\ Done(b) /\ tasks[b].op = "create_session"
        /\ tasks[b].error = "SessionAlreadyExistsError"
        /\ tasks[b].session_id = SeedSession.sessionID
        /\ sessions = <<SeedSession>>

\* A turn on a session id that is not stored ends in the step that starts it,
\* with SessionNotFound, before it reaches the agent service, and the step
\* leaves the session collection as it was.
C15_Step ==
    \A t \in Tasks :
        (tasks'[t].op \in ChatOps /\ tasks'[t].id # tasks[t].id
                /\ IndexOf(tasks'[t].session_id) = 0) =>
            /\ tasks'[t].pc = "done"
            /\ tasks'[t].error = "SessionNotFoundError"
            /\ tasks'[t].conversation = <<>>
            /\ sessions' = sessions

\* A finished turn that failed with SessionNotFound has pushed no message.
C15_NotFoundTurnPushedNothing ==
    \A t \in Tasks :
        (Done(t) /\ tasks[t].op \in ChatOps /\ tasks[t].error = "SessionNotFoundError") =>
            /\ OwnPositions(t) = {}
            /\ tasks[t].conversation = <<>>

\* C15: generate_text_response and generate_gen_ui_response for a session id
\* that does not exist fail with SessionNotFound before the agent service is
\* called, and write nothing to any session.
C15_TurnOnMissingSessionFails ==
    [](C15_NotFoundTurnPushedNothing) /\ [][C15_Step]_vars

C15_Witness ==
    \E a \in Tasks, b \in Tasks :
        /\ Done(a) /\ tasks[a].op = TextOp /\ tasks[a].error = "SessionNotFoundError"
        /\ Done(b) /\ tasks[b].op = UIOp /\ tasks[b].error = "SessionNotFoundError"
        /\ sessions = <<SeedSession>>

\* An add_message call (by a caller of the session service) on a session id
\* that is not stored ends in its first step with SessionNotFound, the session
\* collection as it was; its push on a stored session appends its message to
\* that session's stored messages, changes no other session, and returns a
\* Session of that id whose last message is the appended one.
C16_Step ==
    \A t \in Tasks :
        /\ (tasks'[t].op = "add_message" /\ tasks'[t].id # tasks[t].id
                /\ IndexOf(tasks'[t].session_id) = 0) =>
            /\ tasks'[t].pc = "done"
            /\ tasks'[t].error = "SessionNotFoundError"
            /\ tasks'[t].returned = None
            /\ sessions' = sessions
        /\ (tasks[t].op = "add_message" /\ tasks[t].pc = "am_push"
                /\ tasks'[t].pc = "done" /\ tasks'[t].error = "") =>
            LET k == IndexOf(tasks[t].session_id)
                message == The(tasks[t].adding)
            IN /\ k # 0
               /\ Len(sessions') = Len(sessions)
               /\ \A j \in 1..Len(sessions) : j # k => sessions'[j] = sessions[j]
               /\ sessions'[k].messages = Append(sessions[k].messages, message)
               /\ tasks'[t].returned # None
               /\ The(tasks'[t].returned).session_id = tasks[t].session_id
               /\ Len(The(tasks'[t].returned).messages) > 0
               /\ The(tasks'[t].returned).messages[Len(The(tasks'[t].returned).messages)]
                    = message

\* C16: add_message for a session id that does not exist fails with
\* SessionNotFound, creates no session and writes no message; for an existing
\* session it appends the message to the stored log and returns a Session whose
\* last message is the appended one.
C16_AddMessageAppendsOrFails == [][C16_Step]_vars

\* One call failed on a missing session, another appended to a stored one.
C16_Witness ==
    \E a \in Tasks, b \in Tasks :
        /\ Done(a) /\ tasks[a].op = "add_message" /\ tasks[a].error = "SessionNotFoundError"
        /\ IndexOf(tasks[a].session_id) = 0
        /\ Done(b) /\ tasks[b].op = "add_message" /\ tasks[b].error = ""
        /\ Len(StoredMessages(tasks[b].session_id)) = Len(SeedMessages) + 1
        /\ The(tasks[b].returned).messages = StoredMessages(tasks[b].session_id)

\* The tool calls of task t's turn whose tool raised.
ToolErrors(t) == {i \in 1..Len(tasks[t].trace) : tasks[t].trace[i].raised # None}

\* The exceptions that end a turn.
TurnErrors ==
    {"SessionNotFoundError", "ValueError", "ToolCatalogError", "GenerationFailed",
     "PyMongoError"}

\* Every tool call that raised has left, among the messages fed back to the
\* model, a message with the error text and the id of that call, and no turn
\* has ended with a tool's exception.
C17_ToolErrorsAreMessages ==
    \A t \in Tasks :
        /\ \A i \in ToolErrors(t) :
            LET e == tasks[t].trace[i]
            IN /\ e.message.content = "Tool error: (" \o The(e.raised) \o ")"
               /\ e.message.tool_call_id = e.request.id
        /\ tasks[t].error # "" => tasks[t].error \in TurnErrors

\* A step of a turn that is in the agent loop either ends the loop, with the
\* answer or with the failure of the model call, or is a tool call, which
\* adds one message and leaves the turn in the loop.
C17_ToolCallStep ==
    \A t \in Tasks :
        (tasks[t].pc = "invoke" /\ tasks'[t] # tasks[t]) =>
            \/ tasks'[t].pc = "am_get" /\ tasks'[t].trace = tasks[t].trace
            \/ tasks'[t].pc = "done" /\ tasks'[t].error = "GenerationFailed"
            \/ /\ tasks'[t].pc = "invoke"
               /\ tasks'[t].error = ""
               /\ Len(tasks'[t].trace) = Len(tasks[t].trace) + 1
               /\ SubSeq(tasks'[t].trace, 1, Len(tasks[t].trace)) = tasks[t].trace

\* C17: an exception raised by a tool call during a turn becomes a tool
\* message with the error text and the id of the failing call, fed back to the
\* model; it never leaves the agent service, so the turn can still end with
\* its result and both messages stored.
C17_ToolExceptionsContained ==
    [](C17_ToolErrorsAreMessages) /\ [][C17_ToolCallStep]_vars

\* A turn whose updateUserContext call raised for an unknown user has ended
\* with its result and both of its messages stored.
C17_Witness ==
    \E t \in Tasks :
        /\ Done(t) /\ tasks[t].op \in ChatOps /\ tasks[t].error = ""
        /\ tasks[t].returned # None
        /\ Cardinality(OwnPositions(t)) = 2
        /\ \E i \in ToolErrors(t) :
            /\ tasks[t].trace[i].request.name = UpdateUserContextTool
            /\ tasks[t].trace[i].message.content
                = "Tool error: (User context not found for user_id: u2)"

\* C18: whenever the model has been invoked for a turn, with K the configured
\* limit and n the length of the turn's conversation, the messages sent are
\* the last min(K, n) messages of the conversation, in order, never more than
\* K, and the stored log still holds the messages the turn read.
C18_WindowIsLastK ==
    \A t \in Tasks :
        tasks[t].window # None =>
            LET conversation == tasks[t].conversation
                n == Len(conversation)
                K == settings.CONVERSATION_MESSAGES_LIMIT
                m == IF K <= n THEN K ELSE n
                sent == The(tasks[t].window)
            IN /\ Len(sent) = m
               /\ Len(sent) <= K
               /\ \A i \in 1..m :
                    /\ sent[i].content = conversation[n - m + i].content
                    /\ sent[i].role =
                        (IF conversation[n - m + i].role = USER THEN "user" ELSE "assistant")
               /\ IsPrefix(LogAtStart(t), StoredMessages(tasks[t].session_id))

\* With a provider that _create_agent does not know, a turn never has the
\* model invoked, makes no tool call and stores no message; once it has ended
\* with ValueError it stays ended.
C19_NoModelNoWrite ==
    \A t \in Tasks :
        (tasks[t].op \in ChatOps /\ settings.LLM_PROVIDER \notin KnownProviders) =>
            /\ tasks[t].window = None
            /\ tasks[t].trace = <<>>
            /\ tasks[t].response = None
            /\ OwnPositions(t) = {}
            /\ tasks[t].pc \in {"generate", "done"}

\* With such a provider, the step of a turn that gets past the tool catalog
\* ends the turn with ValueError and leaves the session collection as it was,
\* and no step moves a turn that has ended with ValueError.
C19_ProviderStep ==
    \A t \in Tasks :
        /\ ( /\ tasks[t].pc = "generate" /\ tasks'[t] # tasks[t]
             /\ tasks'[t].error # "ToolCatalogError"
             /\ settings.LLM_PROVIDER \notin KnownProviders ) =>
                /\ tasks'[t].pc = "done"
                /\ tasks'[t].error = "ValueError"
                /\ tasks'[t].window = None
                /\ sessions' = sessions
        /\ (tasks[t].error = "ValueError" /\ tasks'[t].id = tasks[t].id) =>
                tasks'[t] = tasks[t]

\* C19: a configured provider outside the known three is fatal for the turn:
\* the agent service raises before any model is invoked, the turn ends there
\* and is not retried, and nothing is appended to the session log.
C19_UnknownProviderIsFatal ==
    [](C19_NoModelNoWrite) /\ [][C19_ProviderStep]_vars

C19_Witness ==
    \E t \in Tasks :
        /\ Done(t) /\ tasks[t].op \in ChatOps /\ tasks[t].error = "ValueError"
        /\ settings.LLM_PROVIDER \notin KnownProviders
        /\ tasks[t].conversation # <<>>
        /\ tasks[t].window = None
        /\ sessions = <<SeedSession>>

\* The longest component sequence read back.
MaxComponents == 3
UITags == {"text", "alert"}

\* The component sequences a stored text may stand for.
ComponentLists ==
    UNION {[1..n -> [type : UITags]] : n \in 0..MaxComponents}

\* Each of them with its serialization.
JsonTexts == {<<JsonDumps(c), c>> : c \in ComponentLists}

\* Reading a stored text back: the component sequences that serialize to it.
JsonLoads(text) == {p[2] : p \in {q \in JsonTexts : q[1] = text}}

\* A finished structured turn has stored, as its agent message, a text that
\* reads back as one component sequence, with as many components as the
\* response it returned and the same type tags in the same order.
C20_StoredTextKeepsComponents ==
    \A t \in Tasks :
        (Done(t) /\ tasks[t].op = UIOp /\ tasks[t].error = "") =>
            LET msgs == StoredMessages(tasks[t].session_id)
                components == The(tasks[t].returned).components
            IN \E j \in OwnPositions(t) :
                /\ msgs[j].role = AGENT
                /\ Cardinality(JsonLoads(msgs[j].content)) = 1
                /\ \A c \in JsonLoads(msgs[j].content) :
                    /\ Len(c) = Len(components)
                    /\ \A i \in 1..Len(c) : c[i].type = components[i].type

\* A turn that starts on a stored session has in its conversation the stored
\* messages, role and text, followed by the user's new message.
C20_WindowStep ==
    \A t \in Tasks :
        (tasks'[t].op \in ChatOps /\ tasks'[t].id # tasks[t].id
                /\ IndexOf(tasks'[t].session_id) # 0) =>
            LET stored == StoredMessages(tasks'[t].session_id)
                conversation == tasks'[t].conversation
            IN /\ Len(conversation) = Len(stored) + 1
               /\ \A i \in 1..Len(stored) :
                    /\ conversation[i].role = stored[i].role
                    /\ conversation[i].content = stored[i].content

\* C20: the text stored as the agent message of a structured turn is the
\* serialization of the response's component sequence, count, order and type
\* tags kept, and that stored text is the agent message in the conversation of
\* the next turn.
C20_SerializedComponentsRoundTrip ==
    [](C20_StoredTextKeepsComponents) /\ [][C20_WindowStep]_vars

\* A structured turn returned two components and a later turn on the same
\* session has their serialization as an agent message of its conversation.
C20_Witness ==
    \E a \in Tasks, b \in Tasks :
        /\ Done(a) /\ tasks[a].op = UIOp /\ tasks[a].error = ""
        /\ Len(The(tasks[a].returned).components) = 2
        /\ tasks[b].op \in ChatOps /\ tasks[b].id > tasks[a].id
        /\ tasks[b].session_id = tasks[a].session_id
        /\ \E i \in 1..Len(tasks[b].conversation) :
            /\ tasks[b].conversation[i].role = AGENT
            /\ tasks[b].conversation[i].content
                = "[{\"type\": \"text\"}, {\"type\": \"alert\"}]"

\* ----------------------------------------------------------------------------
\* C21: a payload is accepted into GenerativeUIResponseFormat.components only
\* if the tag under its "type" key is the tag of one of the Union's classes
\* and the component built from it is of the class that has this tag; a
\* payload whose tag names no class of the Union, or whose tag is not the tag
\* of the class its fields validate as, is rejected.
VariantTags == {class.type : class \in ComponentClasses}

TagOf(name) == (CHOOSE class \in ComponentClasses : class.name = name).type

C21_AcceptedOnlyUnderOwnTag ==
    \A t \in Tasks :
        (Done(t) /\ tasks[t].op = "model_validate" /\ The(tasks[t].doc).type # None)
            => LET tag == The(The(tasks[t].doc).type)
               IN IF tasks[t].error = ""
                  THEN /\ tag \in VariantTags
                       /\ \A i \in 1..Len(The(tasks[t].returned).components) :
                            TagOf(The(tasks[t].returned).components[i].class) = tag
                  ELSE tasks[t].error = "ValidationError"

\* ----------------------------------------------------------------------------
\* C22: no mutual exclusion exists between turns on the same session: a turn
\* that is about to read the session for an append, or about to push, can
\* take that step whatever the other turn on the session is doing, and a new
\* turn can start on a session while another turn is between its two appends.
C22_NoMutualExclusion ==
    \A t \in Tasks :
        /\ (tasks[t].op \in ChatOps /\ tasks[t].pc = "am_get")
                => ENABLED add_message_get(t)
        /\ (tasks[t].op \in ChatOps /\ tasks[t].pc = "am_push")
                => ENABLED add_message_push(t)
        /\ Free(t)
                => \A s \in SessionIds, m \in Contents :
                        ENABLED chat_begin(t, TextOp, s, m)

\* Two turns A and B on one session have ended: the log continues user_A,
\* user_B, agent_A, agent_B, and the conversation B read at its start ends
\* before user_A, which was stored before B's own messages.
C22_Witness ==
    \E a, b \in Tasks :
        /\ a # b
        /\ Done(a) /\ Done(b)
        /\ tasks[a].op \in ChatOps /\ tasks[b].op \in ChatOps
        /\ tasks[a].error = "" /\ tasks[b].error = ""
        /\ tasks[a].session_id = tasks[b].session_id
        /\ LET k == IndexOf(tasks[a].session_id)
               log == sessions[k].messages
               n == Len(log)
           IN /\ n >= 4
              /\ <<origin[k][n - 3].id, origin[k][n - 2].id,
                   origin[k][n - 1].id, origin[k][n].id>>
                    = <<tasks[a].id, tasks[b].id, tasks[a].id, tasks[b].id>>
              /\ <<log[n - 3].role, log[n - 2].role, log[n - 1].role, log[n].role>>
                    = <<USER, USER, AGENT, AGENT>>
              /\ Len(LogAtStart(b)) < n - 3

\* ----------------------------------------------------------------------------
\* Two calls a and b have both passed the existence check for the same
\* identifier and neither has inserted yet.
BothPassedCheck(a, b) ==
    /\ a # b
    /\ \/ /\ tasks[a].pc = "cuc_insert" /\ tasks[b].pc = "cuc_insert"
          /\ tasks[a].user_id = tasks[b].user_id
       \/ /\ tasks[a].pc = "cs_user" /\ tasks[b].pc = "cs_user"
          /\ tasks[a].session_id = tasks[b].session_id
          /\ HasUserContext(tasks[a].user_id)

\* Of two such calls, the one that moves ends without an error and its
\* collection has one more record.
C23_Step ==
    \A a, b \in Tasks :
        (BothPassedCheck(a, b) /\ tasks'[a] # tasks[a]) =>
            /\ tasks'[a].pc = "done"
            /\ tasks'[a].error = ""
            /\ IF tasks[a].op = "create_user_context"
               THEN Len(user_contexts') = Len(user_contexts) + 1
               ELSE Len(sessions') = Len(sessions) + 1

\* C23: two concurrent create_user_context calls with the same user_id, and
\* likewise two concurrent create_session calls with the same session_id (for
\* a user who has a context), that have both passed the existence check both
\* issue their insert: neither ends with an error.
C23_BothPassBothInsert == [][C23_Step]_vars

\* Two create_user_context calls for one user have both ended without an
\* error and the collection holds two records for that user.
C23_Witness ==
    \E a, b \in Tasks :
        /\ a # b
        /\ Done(a) /\ Done(b)
        /\ tasks[a].op = "create_user_context" /\ tasks[b].op = "create_user_context"
        /\ tasks[a].error = "" /\ tasks[b].error = ""
        /\ tasks[a].user_id = tasks[b].user_id
        /\ Cardinality({i \in 1..Len(user_contexts) :
                            user_contexts[i].user_id = tasks[a].user_id}) = 2

\* ----------------------------------------------------------------------------
\* C24: with sequential callers the collections hold at most one user context
\* per user_id and at most one session per session_id.
C24_SequentialIdentifiersUnique ==
    /\ \A i, j \in 1..Len(user_contexts) :
            user_contexts[i].user_id = user_contexts[j].user_id => i = j
    /\ \A i, j \in 1..Len(sessions) :
            sessions[i].sessionID = sessions[j].sessionID => i = j

\* A create_user_context and a create_session, one after the other, each for
\* an identifier that is stored: both were refused and each identifier is
\* still stored once.
C24_Witness ==
    \E a, b \in Tasks :
        /\ Done(a) /\ tasks[a].op = "create_user_context"
        /\ tasks[a].error = "UserContextAlreadyExistsError"
        /\ Done(b) /\ tasks[b].op = "create_session"
        /\ tasks[b].error = "SessionAlreadyExistsError"
        /\ Cardinality({i \in 1..Len(user_contexts) :
                            user_contexts[i].user_id = tasks[a].user_id}) = 1
        /\ Cardinality({i \in 1..Len(sessions) :
                            sessions[i].sessionID = tasks[b].session_id}) = 1

\* ----------------------------------------------------------------------------
\* The stored documents with this user_id / this session id.
ContextsOf(user_id) ==
    {i \in 1..Len(user_contexts) : user_contexts[i].user_id = user_id}

SessionsOf(session_id) ==
    {i \in 1..Len(sessions) : sessions[i].sessionID = session_id}

\* A get_user_context or get_session call is one step that leaves both
\* collections as they were and ends without an error: with nothing returned
\* when no document has the identifier, with the content of a stored document
\* that has it otherwise.
C25_Step ==
    \A t \in Tasks :
        ( /\ tasks'[t].id # tasks[t].id
          /\ tasks'[t].op \in {"get_user_context", "get_session"} ) =>
            /\ user_contexts' = user_contexts
            /\ sessions' = sessions
            /\ tasks'[t].pc = "done"
            /\ tasks'[t].error = ""
            /\ IF tasks'[t].op = "get_user_context"
               THEN IF ContextsOf(tasks'[t].user_id) = {}
                    THEN tasks'[t].returned = None
                    ELSE \E i \in ContextsOf(tasks'[t].user_id) :
                            LET r == The(tasks'[t].returned)
                                d == user_contexts[i]
                            IN /\ tasks'[t].returned # None
                               /\ r.user_id = d.user_id
                               /\ r.user_profile = d.user_profile
                               /\ r.user_portfolio = d.user_portfolio
                               /\ r.created_at = d.created_at
                               /\ r.updated_at = d.updated_at
               ELSE IF SessionsOf(tasks'[t].session_id) = {}
                    THEN tasks'[t].returned = None
                    ELSE \E i \in SessionsOf(tasks'[t].session_id) :
                            LET r == The(tasks'[t].returned)
                                d == sessions[i]
                            IN /\ tasks'[t].returned # None
                               /\ r.session_id = d.sessionID
                               /\ r.user_id = d.user_id
                               /\ r.messages = d.messages

\* C25: get_user_context and get_session are pure lookups: they return the
\* stored record, or nothing (and no error) when there is none, and leave
\* every stored record unchanged.
C25_GetsArePureLookups == [][C25_Step]_vars

\* A get_user_context that found nothing and a get_session that found the
\* session have ended, neither with an error.
C25_Witness ==
    \E a, b \in Tasks :
        /\ Done(a) /\ tasks[a].op = "get_user_context"
        /\ tasks[a].returned = None /\ tasks[a].error = ""
        /\ Done(b) /\ tasks[b].op = "get_session"
        /\ tasks[b].returned # None
        /\ Len(The(tasks[b].returned).messages) > 0

\* ----------------------------------------------------------------------------
\* Where the call of a task stands in the agent service: the system prompt is
\* built and get_tools awaited (PROMPT_RESOLVED); the tools are merged, the
\* provider matched and ainvoke awaited (MODEL_INVOKED, and TOOL_CALL_LOOP once
\* a tool has run); generate_response has returned the structured response
\* (STRUCTURED_RESULT, whatever add_message does afterwards); or it has raised.
\* NONE: the call is no turn, or the turn ended before it reached the service.
GatewayPhase(task) ==
    IF task.op \notin ChatOps THEN "NONE"
    ELSE IF task.pc = "generate" THEN "PROMPT_RESOLVED"
    ELSE IF task.pc = "invoke"
    THEN IF task.trace = <<>> THEN "MODEL_INVOKED" ELSE "TOOL_CALL_LOOP"
    ELSE IF task.pc \in {"am_get", "am_push"} THEN "STRUCTURED_RESULT"
    ELSE IF task.error = "ValueError" THEN "PROVIDER_MISCONFIGURED"
    ELSE IF task.error = "GenerationFailed" THEN "MODEL_CALL_FAILED"
    ELSE IF task.error = "ToolCatalogError" THEN "TOOL_CATALOG_FAILED"
    ELSE IF task.conversation = <<>> THEN "NONE"
    ELSE "STRUCTURED_RESULT"

\* The phase a turn may move to from each phase; the tool set is resolved in
\* the step that leaves PROMPT_RESOLVED.
PhasesAfter(phase) ==
    IF phase = "PROMPT_RESOLVED"
    THEN {"MODEL_INVOKED", "PROVIDER_MISCONFIGURED", "TOOL_CATALOG_FAILED"}
    ELSE IF phase \in {"MODEL_INVOKED", "TOOL_CALL_LOOP"}
    THEN {"TOOL_CALL_LOOP", "STRUCTURED_RESULT", "MODEL_CALL_FAILED"}
    ELSE {phase}

\* One step of a turn, given the phases a turn may end in: a new turn starts
\* at PROMPT_RESOLVED (or ends before the service), a running turn moves as
\* PhasesAfter allows, the model's messages are fixed in the step that leaves
\* PROMPT_RESOLVED for MODEL_INVOKED and not before, and a turn that has ended
\* stands in one of the given phases.
PhaseStep(endings) ==
    \A t \in Tasks :
        (tasks'[t] # tasks[t] /\ tasks'[t].op \in ChatOps) =>
            LET before == GatewayPhase(tasks[t])
                after == GatewayPhase(tasks'[t])
            IN /\ IF tasks'[t].id # tasks[t].id
                  THEN after \in {"PROMPT_RESOLVED", "NONE"}
                  ELSE after \in PhasesAfter(before)
               /\ (tasks'[t].window # None /\ tasks'[t].window # tasks[t].window)
                    => before = "PROMPT_RESOLVED" /\ after = "MODEL_INVOKED"
               /\ after \in {"MODEL_INVOKED", "TOOL_CALL_LOOP", "STRUCTURED_RESULT",
                             "MODEL_CALL_FAILED"}
                    => tasks'[t].window # None
               /\ tasks'[t].pc = "done" => after \in endings \cup {"NONE"}

\* C26 as stated: every turn passes PROMPT_RESOLVED, TOOLS_RESOLVED,
\* MODEL_INVOKED, zero or more tool-call iterations, STRUCTURED_RESULT in this
\* order, the model is never invoked before prompt and tool set are resolved,
\* and every turn ends in exactly one of STRUCTURED_RESULT,
\* PROVIDER_MISCONFIGURED or MODEL_CALL_FAILED.
C26_TurnEndsInOneOfThree ==
    [][PhaseStep({"STRUCTURED_RESULT", "PROVIDER_MISCONFIGURED",
                  "MODEL_CALL_FAILED"})]_vars

\* C26 amended: the same order of phases, and every turn ends in exactly one
\* of STRUCTURED_RESULT, PROVIDER_MISCONFIGURED, MODEL_CALL_FAILED or, when
\* get_tools raises, TOOL_CATALOG_FAILED, which is left before the model is
\* invoked.
C26_TurnEndsInOneOfFour ==
    [][PhaseStep({"STRUCTURED_RESULT", "PROVIDER_MISCONFIGURED",
                  "MODEL_CALL_FAILED", "TOOL_CATALOG_FAILED"})]_vars

\* A turn has passed every phase, a tool call included, and has stored both
\* of its messages.
C26_Witness ==
    \E t \in Tasks :
        /\ Done(t) /\ tasks[t].op \in ChatOps /\ tasks[t].error = ""
        /\ GatewayPhase(tasks[t]) = "STRUCTURED_RESULT"
        /\ Len(tasks[t].trace) > 0
        /\ tasks[t].window # None
        /\ Cardinality(OwnPositions(t)) = 2

\* ----------------------------------------------------------------------------
\* A turn that ended with the exception of get_tools had no model invoked,
\* ran no tool, returned nothing and stored no message.
C27_CatalogFailureLeftNothing ==
    \A t \in Tasks :
        (Done(t) /\ tasks[t].error = "ToolCatalogError") =>
            /\ tasks[t].op \in ChatOps
            /\ tasks[t].window = None
            /\ tasks[t].trace = <<>>
            /\ tasks[t].returned = None
            /\ OwnPositions(t) = {}

\* The step in which get_tools raises ends the turn with that exception and
\* leaves both collections as they were.
C27_Step ==
    \A t \in Tasks :
        get_tools_failed(t) =>
            /\ tasks'[t].pc = "done"
            /\ tasks'[t].error = "ToolCatalogError"
            /\ tasks'[t].window = None
            /\ sessions' = sessions
            /\ user_contexts' = user_contexts

\* C27: an exception of get_tools is fatal to the turn: it reaches the caller
\* of the orchestrator, no model is invoked and nothing is appended to the
\* session log.
C27_CatalogFailureIsFatal ==
    [](C27_CatalogFailureLeftNothing) /\ [][C27_Step]_vars

\* A turn on the stored session under a known provider has ended with the
\* exception of get_tools; the log is the one the turn read.
C27_Witness ==
    \E t \in Tasks :
        /\ Done(t) /\ tasks[t].op \in ChatOps
        /\ tasks[t].error = "ToolCatalogError"
        /\ settings.LLM_PROVIDER \in KnownProviders
        /\ StoredMessages(tasks[t].session_id) = LogAtStart(t)
        /\ Len(LogAtStart(t)) > 0

\* ----------------------------------------------------------------------------
\* The call of the task ended on a record that is absent / on an identifier
\* that is taken.
EndedNotFound(task) ==
    \/ task.op \in {"get_session", "get_user_context"}
            /\ task.error = "" /\ task.returned = None
    \/ task.op = "update_user_context" /\ task.error = "UserContextNotFoundError"
    \/ task.op \in ChatOps /\ task.error = "SessionNotFoundError"

EndedAlreadyExists(task) ==
    task.error \in {"UserContextAlreadyExistsError", "SessionAlreadyExistsError"}

\* C28: through the API, a get of a missing session or user context, an update
\* of a missing user context and a turn on a missing session are answered 404,
\* a create of an identifier that is taken is answered 409, and neither is
\* answered 500.
C28_NotFoundIs404AlreadyExistsIs409 ==
    \A t \in Tasks :
        (Done(t) /\ tasks[t].op \in RoutedOps) =>
            /\ EndedNotFound(tasks[t]) => StatusCode(tasks[t]) = 404
            /\ EndedAlreadyExists(tasks[t]) => StatusCode(tasks[t]) = 409

\* A get of a user without a record was answered 404 and a create of a
\* session id that is stored was answered 409.
C28_Witness ==
    \E a, b \in Tasks :
        /\ Done(a) /\ tasks[a].op = "get_user_context"
        /\ EndedNotFound(tasks[a])
        /\ StatusCode(tasks[a]) = 404
        /\ Done(b) /\ tasks[b].op = "create_session"
        /\ tasks[b].error = "SessionAlreadyExistsError"
        /\ StatusCode(tasks[b]) = 409

\* ----------------------------------------------------------------------------
\* No two turns hold the same runtime context object, and every local tool
\* call of a turn ran with the object of that turn.
C29_ContextsApart ==
    /\ \A a, b \in Tasks :
            (a # b /\ tasks[a].runtime_context # None /\ tasks[b].runtime_context # None)
                => The(tasks[a].runtime_context).object
                        # The(tasks[b].runtime_context).object
    /\ \A t \in Tasks :
            \A i \in 1..Len(tasks[t].trace) :
                /\ tasks[t].runtime_context # None
                /\ tasks[t].trace[i].context = The(tasks[t].runtime_context).object

\* A turn gets its runtime context in its own generate_response, in the step
\* that goes on to the model, and keeps that object to its end.
C29_Step ==
    \A t \in Tasks :
        (tasks'[t].runtime_context # tasks[t].runtime_context) =>
            \/ tasks'[t].id # tasks[t].id /\ tasks'[t].runtime_context = None
            \/ /\ tasks'[t].id = tasks[t].id
               /\ tasks[t].runtime_context = None
               /\ tasks[t].pc = "generate" /\ tasks'[t].pc = "invoke"
               /\ \A o \in Tasks \ {t} :
                    tasks[o].runtime_context # tasks'[t].runtime_context

\* C29: the runtime context handed to the local tools is request-scoped: each
\* generate_response call constructs its own ToolRuntimeContext and no
\* runtime context object is shared between two turns, concurrent or not.
C29_RuntimeContextIsRequestScoped ==
    [](C29_ContextsApart) /\ [][C29_Step]_vars

\* Two turns are in the agent loop at once and each has made a local tool
\* call with its own runtime context.
C29_Witness ==
    \E a, b \in Tasks :
        /\ a # b
        /\ tasks[a].pc = "invoke" /\ tasks[b].pc = "invoke"
        /\ Len(tasks[a].trace) > 0 /\ Len(tasks[b].trace) > 0
        /\ tasks[a].trace[1].request.name = GetUserContextTool
        /\ tasks[b].trace[1].request.name = GetUserContextTool
        /\ tasks[a].trace[1].context # tasks[b].trace[1].context

\* ----------------------------------------------------------------------------
\* The turns that have ended successfully on the k-th stored session.
TurnsDoneOn(k) ==
    {t \in Tasks : /\ Done(t) /\ tasks[t].op \in ChatOps /\ tasks[t].error = ""
                   /\ tasks[t].session_id = sessions[k].sessionID}

\* The text of the agent message a successful turn stored, from what the
\* turn returned.
ReturnedText(t) ==
    IF tasks[t].op = TextOp THEN The(tasks[t].returned)
    ELSE JsonDumps(The(tasks[t].returned).components)

\* The positions of the k-th log that hold this message pushed by turn t.
PositionsOf(k, t, role, content) ==
    {i \in 1..Len(sessions[k].messages) :
        /\ origin[k][i].id = tasks[t].id
        /\ sessions[k].messages[i].role = role
        /\ sessions[k].messages[i].content = content}

\* C30: no append is lost under concurrency: the log of a session holds, for
\* every turn that has ended successfully on it, the turn's user message
\* exactly once and its agent message exactly once; and once N turns, started
\* in any interleaving and being all the calls made, have all ended
\* successfully on the session, its log is exactly 2N messages longer than
\* before.
C30_NoAppendLost ==
    \A k \in 1..Len(sessions) :
        /\ Len(origin[k]) = Len(sessions[k].messages)
        /\ \A t \in TurnsDoneOn(k) :
            /\ Cardinality(PositionsOf(k, t, USER, tasks[t].message)) = 1
            /\ Cardinality(PositionsOf(k, t, AGENT, ReturnedText(t))) = 1
            /\ Cardinality({i \in 1..Len(origin[k]) : origin[k][i].id = tasks[t].id}) = 2
        /\ calls = Cardinality(TurnsDoneOn(k))
            => Len(sessions[k].messages)
                    = Len(InitialMessages(k)) + 2 * Cardinality(TurnsDoneOn(k))

\* Two turns, all the calls made, ran concurrently on one session and both
\* ended successfully: the log continues user_A, user_B, agent_B, agent_A.
C30_Witness ==
    \E a, b \in Tasks :
        /\ a # b
        /\ calls = 2
        /\ \E k \in 1..Len(sessions) :
            /\ TurnsDoneOn(k) = {a, b}
            /\ LET n == Len(sessions[k].messages)
               IN /\ n = Len(InitialMessages(k)) + 4
                  /\ <<origin[k][n - 3].id, origin[k][n - 2].id,
                       origin[k][n - 1].id, origin[k][n].id>>
                        = <<tasks[a].id, tasks[b].id, tasks[b].id, tasks[a].id>>

\* ----------------------------------------------------------------------------
\* Every getUserContext / updateUserContext call in the trace of a turn names
\* the user who owns the turn's session.
C31_ToolCallsNameOwner ==
    \A t \in Tasks :
        \A i \in 1..Len(tasks[t].trace) :
            tasks[t].trace[i].request.name \in {GetUserContextTool, UpdateUserContextTool}
                => tasks[t].trace[i].request.user_id = tasks[t].user_id

\* A step of a turn leaves the stored context of every other user as it was.
C31_Step ==
    \A t \in Tasks :
        (tasks[t].op \in ChatOps /\ tasks'[t] # tasks[t]) =>
            \A u \in Users \ {tasks[t].user_id} :
                FindOne(user_contexts', "user_id", u) = FindOne(user_contexts, "user_id", u)

\* C31: during a turn on a session owned by user u, every getUserContext /
\* updateUserContext tool call reads or writes only u's UserContext; no turn
\* reads or replaces the UserContext of a different user_id.
C31_LocalToolsIsolateUsers ==
    [](C31_ToolCallsNameOwner) /\ [][C31_Step]_vars

\* A turn on the session of "u1" has replaced the stored context of "u2".
C31_Witness ==
    \E t \in Tasks :
        /\ tasks[t].op \in ChatOps /\ tasks[t].user_id = "u1"
        /\ \E i \in 1..Len(tasks[t].trace) :
            /\ tasks[t].trace[i].request.name = UpdateUserContextTool
            /\ tasks[t].trace[i].request.user_id = "u2"
            /\ tasks[t].trace[i].raised = None
        /\ FindOne(user_contexts, "user_id", "u2") # None
        /\ FindOne(user_contexts, "user_id", "u2") # Some(SeedContextOther)

\* ----------------------------------------------------------------------------
\* The updateUserContext calls of a turn that returned without an exception.
ToolUpdates(t) ==
    {i \in 1..Len(tasks[t].trace) :
        /\ tasks[t].trace[i].request.name = UpdateUserContextTool
        /\ tasks[t].trace[i].raised = None}

\* The step of a successful updateUserContext call leaves the profile and the
\* portfolio the tool was given in the stored context, stamped with the time
\* of the call; the step in which the model call fails changes neither
\* collection.
C32_Step ==
    \A t \in Tasks :
        /\ (Len(tasks'[t].trace) = Len(tasks[t].trace) + 1
                /\ Len(tasks'[t].trace) \in
                    {i \in 1..Len(tasks'[t].trace) :
                        /\ tasks'[t].trace[i].request.name = UpdateUserContextTool
                        /\ tasks'[t].trace[i].raised = None}) =>
                LET user_id == tasks'[t].trace[Len(tasks'[t].trace)].request.user_id
                    stored == FindOne(user_contexts', "user_id", user_id)
                IN /\ stored # None
                   /\ The(stored).user_profile \in Profiles
                   /\ The(stored).user_portfolio \in Portfolios
                   /\ The(stored).updated_at = Some(clock)
                   /\ stored # FindOne(user_contexts, "user_id", user_id)
        /\ (tasks[t].pc = "invoke" /\ tasks'[t].pc = "done"
                /\ tasks'[t].error = "GenerationFailed") =>
                /\ user_contexts' = user_contexts
                /\ sessions' = sessions

\* A turn that ended with the model call failing stored no message.
C32_FailedTurnStoredNoMessage ==
    \A t \in Tasks :
        (Done(t) /\ tasks[t].error = "GenerationFailed") => OwnPositions(t) = {}

\* C32: what the updateUserContext tool wrote during a turn is not rolled
\* back when the turn later fails: after a successful tool update and a
\* failed model call the session log is unchanged and the user context holds
\* the profile and portfolio the tool wrote.
C32_ToolWritesSurviveFailedTurn ==
    [](C32_FailedTurnStoredNoMessage) /\ [][C32_Step]_vars

\* A turn updated the context of its user through the tool and then ended
\* with the model call failing: the log is the stored one, the context is the
\* one the tool wrote.
C32_Witness ==
    \E t \in Tasks :
        /\ Done(t) /\ tasks[t].error = "GenerationFailed"
        /\ ToolUpdates(t) # {}
        /\ sessions = <<SeedSession>>
        /\ LET stored == FindOne(user_contexts, "user_id", tasks[t].user_id)
           IN /\ stored # None /\ stored # Some(SeedContext)
              /\ The(stored).user_profile \in Profiles
              /\ The(stored).user_portfolio \in Portfolios
              /\ The(stored).updated_at # None

\* ----------------------------------------------------------------------------
\* The store operation of the task succeeded with an entity.
EndedWithEntity(task) ==
    \/ task.op = "get_session" /\ task.error = "" /\ task.returned # None
    \/ task.op \in {"create_session", "update_user_context"}
            /\ task.error = "" /\ task.returned # None

\* C33: a successful store operation is reported to the API caller as success
\* with the entity: create session and get session on valid input, and update
\* user context on an existing user, are answered 200 or 201 and not with the
\* generic failure.
C33_SuccessIsReportedAsSuccess ==
    \A t \in Tasks :
        (Done(t) /\ EndedWithEntity(tasks[t])) => StatusCode(tasks[t]) \in {200, 201}

\* ----------------------------------------------------------------------------
\* C34: the UserContext a successful create_user_context returned equals what
\* the get_user_context made right after it, by a sequential caller, returns
\* for that user_id, the created_at value included.
C34_CreateReturnsWhatGetReturns ==
    \A a, b \in Tasks :
        ( /\ Done(a) /\ tasks[a].op = "create_user_context" /\ tasks[a].error = ""
          /\ Done(b) /\ tasks[b].op = "get_user_context"
          /\ tasks[b].id = tasks[a].id + 1
          /\ tasks[b].user_id = tasks[a].user_id ) =>
            tasks[b].returned = tasks[a].returned

C34_Witness ==
    \E a, b \in Tasks :
        /\ Done(a) /\ tasks[a].op = "create_user_context" /\ tasks[a].error = ""
        /\ Done(b) /\ tasks[b].op = "get_user_context"
        /\ tasks[b].id = tasks[a].id + 1
        /\ tasks[b].user_id = tasks[a].user_id
        /\ tasks[b].returned # {}
        /\ The(tasks[b].returned).created_at # The(tasks[a].returned).created_at

\* ----------------------------------------------------------------------------
\* What get_session(session_id) returns on the collection as it stands.
SessionNow(coll, session_id) ==
    LET doc == FindOne(coll, "sessionID", session_id)
    IN IF doc = None THEN None ELSE Some(ToSession(The(doc)))

C35_Step ==
    \A t \in Tasks :
        (tasks[t].op = "add_message" /\ tasks[t].pc = "am_push"
            /\ tasks'[t].pc = "done" /\ tasks'[t].error = "") =>
            LET read == tasks[t].session
                current == SessionNow(sessions, tasks[t].session_id)
                after == SessionNow(sessions', tasks[t].session_id)
            IN /\ (read = current) => (tasks'[t].returned = after)
               /\ (read # current) => (tasks'[t].returned # after)

\* C35: when nothing was appended to the session between add_message's read and
\* its push (the case of sequential callers), the Session add_message returns
\* equals what get_session returns right afterwards; when another append to the
\* same session landed in between, the returned view differs from the stored log.
C35_AddMessageViewVsLog == [][C35_Step]_vars

\* Both cases happened: one add_message returned the log as its push left it
\* (a prefix of the log now), another a view that is not even a prefix of it.
C35_Witness ==
    \E a, b \in Tasks :
        /\ Done(a) /\ tasks[a].op = "add_message" /\ tasks[a].error = ""
        /\ Done(b) /\ tasks[b].op = "add_message" /\ tasks[b].error = ""
        /\ tasks[a].session_id = tasks[b].session_id
        /\ IsPrefix(The(tasks[a].returned).messages, StoredMessages(tasks[a].session_id))
        /\ ~IsPrefix(The(tasks[b].returned).messages, StoredMessages(tasks[b].session_id))

\* ----------------------------------------------------------------------------
\* C36: whenever the configured limit K is at least 1 and the model has been
\* invoked for a turn, the messages sent end with the turn's new user message:
\* the cut to the last K never drops the message being answered.
C36_WindowEndsWithNewMessage ==
    \A t \in Tasks :
        (tasks[t].window # None /\ settings.CONVERSATION_MESSAGES_LIMIT >= 1) =>
            LET sent == The(tasks[t].window)
            IN /\ Len(sent) >= 1
               /\ sent[Len(sent)] = [role |-> "user", content |-> tasks[t].message]

\* A turn whose conversation was longer than the limit and was cut.
C36_Witness ==
    \E t \in Tasks :
        /\ tasks[t].window # None
        /\ settings.CONVERSATION_MESSAGES_LIMIT >= 1
        /\ Len(tasks[t].conversation) > settings.CONVERSATION_MESSAGES_LIMIT
        /\ Len(The(tasks[t].window)) = settings.CONVERSATION_MESSAGES_LIMIT
        /\ The(tasks[t].window)[Len(The(tasks[t].window))].content = tasks[t].message

\* ----------------------------------------------------------------------------
C37_Step ==
    \A t \in Tasks :
        (tasks'[t].op = "create_session" /\ tasks'[t].id # tasks[t].id
            /\ IndexOf(tasks'[t].session_id) # 0
            /\ ~HasUserContext(tasks'[t].user_id)) =>
            /\ tasks'[t].pc = "done"
            /\ tasks'[t].error = "SessionAlreadyExistsError"
            /\ tasks'[t].returned = None
            /\ sessions' = sessions
            /\ user_contexts' = user_contexts

\* C37: a create_session call whose session_id is stored and whose user_id has
\* no UserContext ends with SessionAlreadyExistsError (the session check runs
\* before the user check), returns nothing, and neither collection is written.
C37_AlreadyExistsBeforeUserCheck == [][C37_Step]_vars

\* create_session("u2", "s1") ended with AlreadyExists: "s1" is stored, "u2"
\* has no UserContext.
C37_Witness ==
    \E t \in Tasks :
        /\ Done(t) /\ tasks[t].op = "create_session"
        /\ tasks[t].error = "SessionAlreadyExistsError"
        /\ IndexOf(tasks[t].session_id) # 0
        /\ ~HasUserContext(tasks[t].user_id)
        /\ sessions = <<SeedSession>>

\* ----------------------------------------------------------------------------
\* C38: the tools an agent was built with have unique names: the catalog
\* get_tools answered, followed by the local updateUserContext and
\* getUserContext, never holds the same name twice, the catalog of this
\* repository's own MCP server included.
C38_MergedToolNamesUnique ==
    \A t \in Tasks :
        tasks[t].pc = "invoke" =>
            \A i, j \in DOMAIN tasks[t].tools :
                tasks[t].tools[i] = tasks[t].tools[j] => i = j

\* An agent was built on the catalog of this repository's MCP server.
C38_Witness ==
    \E t \in Tasks :
        /\ tasks[t].pc = "invoke"
        /\ tasks[t].tools = McpAppTools \o InternalTools

\* ----------------------------------------------------------------------------
\* The strings a caller supplies as session_id.
SuppliedIds == SessionIds \cup {""}

C39_Step ==
    \A t \in Tasks :
        /\ \A u \in Users, s \in SuppliedIds :
            (create_session_begin(t, u, Some(s)) /\ tasks'[t].pc = "cs_user") =>
                tasks'[t].session_id = s
        /\ (tasks[t].op = "create_session" /\ tasks[t].pc = "cs_user"
                /\ tasks'[t].pc = "done" /\ tasks'[t].error = "") =>
            /\ tasks'[t].returned # None
            /\ The(tasks'[t].returned).session_id = tasks[t].session_id
            /\ Len(sessions') = Len(sessions) + 1
            /\ sessions'[Len(sessions')].sessionID = tasks[t].session_id

C40_Step ==
    sessions' # sessions =>
        \E t \in Tasks :
            /\ tasks[t].pc = "am_push"
            /\ LET k == IndexOf(tasks[t].session_id)
               IN /\ k # 0
                  /\ Len(sessions') = Len(sessions)
                  /\ \A j \in 1..Len(sessions) : j # k => sessions'[j] = sessions[j]
                  /\ sessions'[k] = [sessions[k] EXCEPT !.messages = sessions'[k].messages]
                  /\ sessions'[k].sessionID = tasks[t].session_id
                  /\ IsPrefix(sessions[k].messages, sessions'[k].messages)

\* C40: a step that writes the session collection is the push of an
\* add_message call (a turn's appends are such calls) on a stored session s and
\* changes only the messages of s: the session_id and user_id of s, every other
\* session and the number of sessions stay as they were.
C40_SessionWritesFrame == [][C40_Step]_vars

\* Turns appended to one of two stored sessions; the other is as it was seeded.
C40_Witness ==
    /\ Len(sessions) = 2
    /\ sessions[2] = SeedSessionOther
    /\ sessions[1].sessionID = "s1" /\ sessions[1].user_id = "u1"
    /\ Len(sessions[1].messages) = Len(SeedMessages) + 2

====
